---- MODULE Spec2Model ----
(***************************************************************************)
(* A model of PyABS (Python Advanced Binary Structure): the bit arithmetic *)
(* of HexUtils.py and the decoding engine of AdvancedBinaryStructure.py.   *)
(*                                                                         *)
(* Python values are represented as follows.                               *)
(*   - a byte list / bytearray : a sequence of naturals in 0..255          *)
(*   - a 64-bit integer        : a sequence of 64 bits, most significant   *)
(*                               bit first (TLC integers are 32 bits wide) *)
(*   - an exception            : a record whose err field names its class  *)
(***************************************************************************)
EXTENDS Integers, Sequences, FiniteSets, TLC

VARIABLES
    pc,       \* decoder: "idle" before the call, "running" inside it, "done" after it
    input,    \* decoder: the entry point called and its arguments
    stack,    \* decoder: the constructors of AbsFieldStruct and AbsFieldDynArray
              \* that are running, outermost first
    ctxs,     \* decoder: the context dicts created so far, by creation order
    result,   \* decoder: what the call returned or raised
    xpc,      \* bit arithmetic harness: "input" before the call, "done" after it
    xin,      \* bit arithmetic harness: the arguments of the call
    xout      \* bit arithmetic harness: what the call returned or raised

dvars == <<pc, input, stack, ctxs, result>>

xvars == <<xpc, xin, xout>>

vars == <<pc, input, stack, ctxs, result, xpc, xin, xout>>

----------------------------------------------------------------------------
(* Outcomes of a Python call: a returned value or a raised exception.      *)

NoError == "none"

Ok(v) == [err |-> NoError, val |-> v]

Raise(e) == [err |-> e, val |-> <<>>]

IsOk(r) == r.err = NoError

Min(a, b) == IF a <= b THEN a ELSE b

Max(a, b) == IF a >= b THEN a ELSE b

\* a slice bound of Python, for a sequence of length n: a negative bound
\* counts from the end, and every bound is clamped to 0..n
PyBound(i, n) == IF i < 0 THEN Max(n + i, 0) ELSE Min(i, n)

\* Python's seq[a:b]
PySlice(s, a, b) == SubSeq(s, PyBound(a, Len(s)) + 1, PyBound(b, Len(s)))

\* Python's seq[a:]
PyTail(s, a) == SubSeq(s, PyBound(a, Len(s)) + 1, Len(s))

RECURSIVE SeqSum(_)

\* sum(s)
SeqSum(s) == IF s = <<>> THEN 0 ELSE Head(s) + SeqSum(Tail(s))

----------------------------------------------------------------------------
(* HexUtils.py : bitwise addresses                                         *)

\* bits numbered from the least significant one
to_bitwise_addrMutant(offset) == <<offset \div 8, 7 - (offset % 8)>>

to_bitwise_addr(offset) == <<offset \div 8, offset % 8>>

to_offset(byte_addr, byte_offset) == byte_addr * 8 + byte_offset

----------------------------------------------------------------------------
(* HexUtils.py : 64-bit words as bit vectors                               *)

\* bit k (0 = most significant) of the byte b
BitOf(b, k) == (b \div (2 ^ (7 - k))) % 2

\* 0xFFFFFFFFFFFFFFFF
Ones64 == [i \in 1..64 |-> 1]

Zero64 == [i \in 1..64 |-> 0]

\* (v << n) & 0xFFFFFFFFFFFFFFFF
Shl64(v, n) == [i \in 1..64 |-> IF i + n <= 64 THEN v[i + n] ELSE 0]

\* v >> n
Shr64(v, n) == [i \in 1..64 |-> IF i - n >= 1 THEN v[i - n] ELSE 0]

And64(a, b) == [i \in 1..64 |-> a[i] * b[i]]

Or64(a, b) == [i \in 1..64 |-> IF a[i] = 1 \/ b[i] = 1 THEN 1 ELSE 0]

\* 0xFF as a 64-bit word
Byte64 == [i \in 1..64 |-> IF i >= 57 THEN 1 ELSE 0]

\* the number a word whose upper 56 bits are clear stands for
Low8(v) ==
    128 * v[57] + 64 * v[58] + 32 * v[59] + 16 * v[60]
    + 8 * v[61] + 4 * v[62] + 2 * v[63] + v[64]

to_u64(u8) == [i \in 1..64 |-> BitOf(u8[((i - 1) \div 8) + 1], (i - 1) % 8)]

\* a shift of the whole word refused
left_shift_64Mutant(u64, shift) ==
    IF 0 <= shift /\ shift < 64
    THEN Ok(<<Shr64(And64(u64, Shl64(Ones64, 64 - shift)), 64 - shift),
              Shl64(u64, shift)>>)
    ELSE Raise("HexUtilsParamError")

left_shift_64(u64, shift) ==
    IF 0 <= shift /\ shift <= 64
    THEN Ok(<<Shr64(And64(u64, Shl64(Ones64, 64 - shift)), 64 - shift),
              Shl64(u64, shift)>>)
    ELSE Raise("HexUtilsParamError")

\* which following group's discarded bits are OR-ed into group j
CarryFromMutant(j) == j

CarryFrom(j) == j + 1

\* the data in groups of 8 bytes, the last one zero-padded, as 64-bit words
l_u64s(data) ==
    [j \in 1..((Len(data) + 7) \div 8) |->
       to_u64([i \in 1..8 |->
                 IF 8 * (j - 1) + (i - 1) < Len(data)
                 THEN data[8 * (j - 1) + i]
                 ELSE 0])]

\* (discarded, retained) of every word, and (0, 0) at the end
l_shifted_tuples(u64s, shift) ==
    [j \in 1..Len(u64s) |-> left_shift_64(u64s[j], shift).val]
    \o << <<Zero64, Zero64>> >>

\* the bits discarded by the next word enter each word
l_shifted_u64s(tuples) ==
    [j \in 1..(Len(tuples) - 1) |-> Or64(tuples[CarryFrom(j)][1], tuples[j][2])]

\* the words as bytes
l_shifted_data_u8(u64s) ==
    [p \in 1..(8 * Len(u64s)) |->
       Low8(Shr64(And64(u64s[((p - 1) \div 8) + 1],
                        Shl64(Byte64, 8 * (8 - 1 - ((p - 1) % 8)))),
                  8 * (8 - 1 - ((p - 1) % 8))))]

\* the bytes added to fill the last group are not removed
cross_byte_left_shiftMutant(data, shift) ==
    IF data = <<>> \/ (0 <= shift /\ shift <= 64)
    THEN Ok(l_shifted_data_u8(
                l_shifted_u64s(l_shifted_tuples(l_u64s(data), shift))))
    ELSE Raise("HexUtilsParamError")

\* left_shift_64 raises for a shift outside 0..64, once per group: no group,
\* no exception
cross_byte_left_shift(data, shift) ==
    IF data = <<>> \/ (0 <= shift /\ shift <= 64)
    THEN Ok(SubSeq(l_shifted_data_u8(
                       l_shifted_u64s(l_shifted_tuples(l_u64s(data), shift))),
                   1, Len(data)))
    ELSE Raise("HexUtilsParamError")

\* bit k of a & b, in place
BitAnd(a, b, k) == BitOf(a, k) * BitOf(b, k) * (2 ^ (7 - k))

\* a & b on bytes
ByteAnd(a, b) ==
    BitAnd(a, b, 0) + BitAnd(a, b, 1) + BitAnd(a, b, 2) + BitAnd(a, b, 3)
    + BitAnd(a, b, 4) + BitAnd(a, b, 5) + BitAnd(a, b, 6) + BitAnd(a, b, 7)

\* ~(0xFF >> n) & 0xFF
KeepHighBits(n) == 255 - (255 \div (2 ^ n))

\* the position in l_data of l_last_byte: a negative Python index counts
\* from the end
LastByteIndex(l_data, width) ==
    IF to_bitwise_addr(width - 1)[1] >= 0
    THEN to_bitwise_addr(width - 1)[1] + 1
    ELSE Len(l_data) + to_bitwise_addr(width - 1)[1] + 1

\* the last byte is returned as it was shifted, the bits behind the width
\* left in
mask_last_byteMutant(l_data, l_idx, width) ==
    IF l_idx < 1 \/ l_idx > Len(l_data) THEN Raise("IndexError")
    ELSE Ok(PySlice(l_data, 0, to_bitwise_addr(width - 1)[1] + 1))

\* "l_data[l_last_byte] &= mask; return l_data[0:l_last_byte + 1]"
mask_last_byte(l_data, l_idx, width) ==
    IF l_idx < 1 \/ l_idx > Len(l_data) THEN Raise("IndexError")
    ELSE Ok(PySlice([l_data EXCEPT ![l_idx] =
                         ByteAnd(@, KeepHighBits(to_bitwise_addr(width - 1)[2] + 1))],
                    0, to_bitwise_addr(width - 1)[1] + 1))

\* extract once the bytes concerned are shifted to the left
extract_shifted(l_shifted, width) ==
    IF ~IsOk(l_shifted) THEN l_shifted
    ELSE mask_last_byte(l_shifted.val, LastByteIndex(l_shifted.val, width), width)

extract(data, offset, width) ==
    IF ~(to_bitwise_addr(offset + width - 1)[1] < Len(data))
    THEN Raise("HexUtilsInputSizeError")
    ELSE extract_shifted(
             cross_byte_left_shift(
                 PySlice(data, to_bitwise_addr(offset)[1],
                         to_bitwise_addr(offset + width - 1)[1] + 1),
                 to_bitwise_addr(offset)[2]),
             width)

----------------------------------------------------------------------------
(* Python values that occur in a field specification. Every node carries   *)
(* its Python type in t.                                                   *)

S(s) == [t |-> "str", s |-> s]

I(n) == [t |-> "int", n |-> n]

T(v) == [t |-> "tuple", v |-> v]

L(v) == [t |-> "list", v |-> v]

\* a dict literal: its keys and, in the same order, its values
D(k, v) == [t |-> "dict", k |-> k, v |-> v]

\* a class object
Cls(c) == [t |-> "class", c |-> c]

\* a str used as a dict key, given by its character codes
Chars(s) == [t |-> "chars", s |-> s]

\* a bool used as a dict key (True is 1, False is 0)
B(b) == [t |-> "bool", n |-> b]

TAGGED == S("TAGGED")

SWITCH == S("SWITCH")

DYN_ARRAY == S("DYN_ARRAY")

SIZE_EXCL == S("SIZE_EXCL")

SIZE_INCL == S("SIZE_INCL")

NB_ELTS == S("NB_ELTS")

SPEC_PLACEHOLDER == "SPEC_PLACEHOLDER"

SPEC_BOOLEAN == "SPEC_BOOLEAN"

SPEC_INTEGER == "SPEC_INTEGER"

SPEC_HELPER_CLASS == "SPEC_HELPER_CLASS"

SPEC_STRUCT == "SPEC_STRUCT"

SPEC_SWITCH == "SPEC_SWITCH"

SPEC_DYN_ARRAY == "SPEC_DYN_ARRAY"

\* a classifier that stops one bit short
PARAM_MAX_INTEGER_BIT_WIDTHMutant == 64 - 1

\* largest field width of the source
PARAM_MAX_INTEGER_BIT_WIDTH == 64

----------------------------------------------------------------------------
(* AdvancedBinaryStructure.py : the helper classes and the classifier      *)

\* the classes derived from AbsFieldHelperClass, and the class itself
HelperClasses ==
    {"AbsFieldHelperClass", "AbsFieldPlaceholder", "AbsFieldInteger",
     "AbsFieldBoolean", "AbsFieldAscii", "AbsFieldRawData", "AbsFieldStruct",
     "AbsFieldDynArray", "LengthField", "SizeField"}

\* the classes that decode as AbsFieldInteger (it and its subclasses)
IntegerClasses == {"AbsFieldInteger", "LengthField", "SizeField"}

\* issubclass(x, AbsFieldHelperClass): TypeError unless x is a class
issubclass_helper(x) ==
    IF x.t = "class" THEN Ok(x.c \in HelperClasses) ELSE Raise("TypeError")

\* helper classes that accept every width
class_is_valid_specMutant(cls, spec) == TRUE

\* cls.is_valid_spec(spec), for a tuple spec whose second item is an int
class_is_valid_spec(cls, spec) ==
    CASE cls \in IntegerClasses ->
           2 <= spec.v[2].n /\ spec.v[2].n <= PARAM_MAX_INTEGER_BIT_WIDTH
      [] cls = "AbsFieldBoolean" -> spec.v[2].n = 1
      [] cls = "AbsFieldAscii" -> spec.v[2].n % 8 = 0
      [] cls = "AbsFieldRawData" -> TRUE
      [] OTHER -> FALSE

\* "if issubclass(x, AbsFieldHelperClass): if x.is_valid_spec(spec): return
\*  SPEC_HELPER_CLASS, else raise; else raise"
helper_or_error(x, spec) ==
    IF ~IsOk(issubclass_helper(x)) THEN issubclass_helper(x)
    ELSE IF issubclass_helper(x).val /\ class_is_valid_spec(x.c, spec)
    THEN Ok(SPEC_HELPER_CLASS)
    ELSE Raise("AbsFieldSpecError")

\* the exception r if r raised, and else what follows it
Then(r, next) == IF IsOk(r) THEN next ELSE r

RECURSIVE spec_type(_), all_valid(_)

\* all([AbsFactory.is_valid_spec(s) for s in specs]): the first exception wins
all_valid(specs) ==
    IF specs = <<>> THEN Ok(TRUE)
    ELSE Then(spec_type(Head(specs)), all_valid(Tail(specs)))

spec_type(spec) ==
    IF spec.t = "str" THEN Ok(SPEC_PLACEHOLDER)
    ELSE IF spec.t = "tuple" THEN
        IF Len(spec.v) = 0 THEN Raise("IndexError")
        ELSE IF spec.v[1].t # "str" THEN Raise("AbsFieldSpecError")
        ELSE IF Len(spec.v) = 1 THEN Ok(SPEC_PLACEHOLDER)
        ELSE IF Len(spec.v) = 2 THEN
            IF spec.v[2].t = "int" THEN
                IF spec.v[2].n = 0 THEN Ok(SPEC_PLACEHOLDER)
                ELSE IF spec.v[2].n = 1 THEN Ok(SPEC_BOOLEAN)
                ELSE IF spec.v[2].n > 1 /\ spec.v[2].n <= PARAM_MAX_INTEGER_BIT_WIDTH
                THEN Ok(SPEC_INTEGER)
                ELSE Raise("AbsFieldSpecError")
            ELSE IF spec.v[2].t = "list" THEN
                Then(all_valid(spec.v[2].v), Ok(SPEC_STRUCT))
            ELSE Raise("AbsFieldSpecError")
        ELSE IF Len(spec.v) = 3 THEN
            IF spec.v[2].t = "int" THEN
                IF spec.v[2].n = 1 THEN
                    IF spec.v[3] = TAGGED THEN Ok(SPEC_BOOLEAN)
                    ELSE helper_or_error(spec.v[3], spec)
                ELSE IF 1 < spec.v[2].n /\ spec.v[2].n <= PARAM_MAX_INTEGER_BIT_WIDTH
                THEN
                    IF spec.v[3] = TAGGED THEN Ok(SPEC_INTEGER)
                    ELSE helper_or_error(spec.v[3], spec)
                ELSE IF spec.v[2].n > PARAM_MAX_INTEGER_BIT_WIDTH THEN
                    helper_or_error(spec.v[3], spec)
                ELSE Raise("AbsFieldSpecError")
            ELSE Raise("AbsFieldSpecError")
        ELSE IF Len(spec.v) = 4 THEN
            IF spec.v[2].t = "int" THEN
                IF ~IsOk(issubclass_helper(spec.v[3])) THEN issubclass_helper(spec.v[3])
                ELSE IF issubclass_helper(spec.v[3]).val THEN
                    IF spec.v[4] = TAGGED THEN
                        IF class_is_valid_spec(spec.v[3].c, spec)
                        THEN Ok(SPEC_HELPER_CLASS)
                        ELSE Raise("AbsFieldSpecError")
                    ELSE Raise("AbsFieldSpecError")
                ELSE Raise("AbsFieldSpecError")
            ELSE Raise("AbsFieldSpecError")
        ELSE Raise("AbsFieldSpecError")
    ELSE IF spec.t = "list" /\ Len(spec.v) > 0 THEN
        IF spec.v[1] = SWITCH THEN
            IF Len(spec.v) = 3 /\ spec.v[2].t = "str" /\ spec.v[3].t = "dict" THEN
                Then(all_valid(spec.v[3].v), Ok(SPEC_SWITCH))
            ELSE Raise("AbsFieldSpecError")
        ELSE IF spec.v[1] = DYN_ARRAY THEN
            IF 4 <= Len(spec.v) /\ Len(spec.v) <= 5 THEN
                IF spec.v[2].t # "str" THEN Raise("AbsFieldSpecError")
                ELSE IF spec.v[3] \notin {SIZE_EXCL, SIZE_INCL, NB_ELTS}
                    THEN Raise("AbsFieldSpecError")
                ELSE IF spec.v[4] \notin {I(8), I(16), I(32), I(64)}
                    THEN Raise("AbsFieldSpecError")
                ELSE IF Len(spec.v) = 4 THEN Ok(SPEC_DYN_ARRAY)
                ELSE IF spec.v[5].t = "list" THEN
                    Then(spec_type(T(<<S("dummy_id"), spec.v[5]>>)), Ok(SPEC_DYN_ARRAY))
                ELSE IF ~IsOk(issubclass_helper(spec.v[5]))
                    THEN issubclass_helper(spec.v[5])
                ELSE IF issubclass_helper(spec.v[5]).val THEN
                    Then(spec_type(T(<<S("dummy_id"), spec.v[4], spec.v[5]>>)),
                         Ok(SPEC_DYN_ARRAY))
                ELSE Raise("AbsFieldSpecError")
            ELSE Raise("AbsFieldSpecError")
        ELSE Raise("AbsFieldSpecError")
    ELSE Raise("AbsFieldSpecError")

----------------------------------------------------------------------------
(* Decoded values. A Python integer is kept as NLimbs limbs of LimbBits    *)
(* bits, least significant limb first, so that 64-bit values are exact.    *)

LimbBits == 2 * 8

NLimbs == 2 + 2

LimbBase == 2 ^ LimbBits

\* the integer that is the sum of 2^e over the exponents e of the set E
SumOfPowers(E) ==
    [l \in 1..NLimbs |->
       SeqSum([k \in 1..LimbBits |->
                 IF (LimbBits * (l - 1) + (k - 1)) \in E THEN 2 ^ (k - 1) ELSE 0])]

\* a non-negative integer below 2^31 as limbs
NumOf(n) ==
    [l \in 1..NLimbs |->
       IF l = 1 THEN n % LimbBase ELSE IF l = 2 THEN n \div LimbBase ELSE 0]

\* larger than every count the model works with
Huge == 2 ^ 20

\* the limbs as a TLC integer, saturating at Huge
IntOf(v) ==
    IF v[3] # 0 \/ v[4] # 0 \/ v[2] >= 16 THEN Huge
    ELSE v[2] * LimbBase + v[1]

NoneValue == [vt |-> "none"]

\* an int or bool value
NumValue(py, n) == [vt |-> "num", py |-> py, n |-> n]

\* a str value, by its character codes
StrValue(s) == [vt |-> "str", s |-> s]

\* value == key, with Python's equality: True == 1, False == 0
PyEq(value, key) ==
    CASE value.vt = "num" ->
            key.t \in {"int", "bool"} /\ key.n >= 0 /\ NumOf(key.n) = value.n
      [] value.vt = "str" -> key.t = "chars" /\ key.s = value.s
      [] OTHER -> FALSE

\* the positions of a dict literal's keys that equal the value
DictHits(d, value) == {i \in 1..Len(d.k) : PyEq(value, d.k[i])}

\* value in d
DictHas(d, value) == DictHits(d, value) # {}

\* d[value]: of equal keys in a dict literal the last one stays
DictGet(d, value) ==
    d.v[CHOOSE i \in DictHits(d, value) : \A j \in DictHits(d, value) : j <= i]

----------------------------------------------------------------------------
(* Decoded fields. start is the absolute bit position the field was        *)
(* decoded at and kids the fields decoded below it, in decoding order:     *)
(* both are history, the program keeps neither.                            *)

Field(cls, id, bit_width, value, is_tagged, raw_data, start, items, kids) ==
    [cls |-> cls, id |-> id, bit_width |-> bit_width, value |-> value,
     is_tagged |-> is_tagged, raw_data |-> raw_data, start |-> start,
     items |-> items, kids |-> kids]

\* "id = spec[0]; bit_width = spec[1]; tagged iff len(spec) == 3 and
\*  spec[2] == TAGGED, AbsDecodingError for another third item"
decode_spec_common(spec) ==
    IF Len(spec) = 3 /\ spec[3] # TAGGED THEN Raise("AbsDecodingError")
    ELSE Ok([id |-> spec[1].s, bit_width |-> spec[2].n, is_tagged |-> Len(spec) = 3])

AbsFieldAscii_decode_spec(spec) ==
    IF spec[2].n % 8 # 0 THEN Raise("AbsDecodingError")
    ELSE decode_spec_common(spec)

\* the shift that brings bit l_bit of a byte down to bit 0
BitShiftMutant(l_bit) == l_bit

BitShift(l_bit) == 8 - l_bit - 1

\* "(data[l_byte] & (1 << shift)) >> shift" for bit i (from 0) of the field
IntegerValueBit(data, offset, i) ==
    ByteAnd(data[to_bitwise_addr(offset + i)[1] + 1],
            2 ^ BitShift(to_bitwise_addr(offset + i)[2]))
        \div (2 ^ BitShift(to_bitwise_addr(offset + i)[2]))

\* l_value_bits of AbsFieldInteger._decode_data
IntegerValueBits(data, offset, bit_width) ==
    [i \in 1..bit_width |-> IntegerValueBit(data, offset, i - 1)]

AbsFieldInteger_decode_data(data, offset, bit_width) ==
    IF bit_width >= 1 /\ (offset + bit_width - 1) \div 8 >= Len(data)
    THEN Raise("IndexError")
    ELSE Ok(NumValue("int",
                SumOfPowers({bit_width - (i - 1) - 1 :
                               i \in {j \in 1..bit_width :
                                        IntegerValueBits(data, offset, bit_width)[j] = 1}})))

\* the value of a boolean from the bit read
boolean_value(l_value) ==
    IF l_value \in {0, 1} THEN Ok(NumValue("bool", NumOf(l_value)))
    ELSE Raise("AbsDecodingError")

AbsFieldBoolean_decode_data(data, offset) ==
    IF Len(data) = 0 THEN Raise("IndexError")
    ELSE boolean_value(ByteAnd(data[1], 2 ^ (8 - offset - 1))
                           \div (2 ^ (8 - offset - 1)))

\* "".join(chr(b) for b in l_data)
ascii_value(l_data) == IF IsOk(l_data) THEN Ok(StrValue(l_data.val)) ELSE l_data

AbsFieldAscii_decode_data(data, offset, bit_width) ==
    ascii_value(extract(data, offset, bit_width))

\* the character code of a hexadecimal digit, upper case
HexChar(d) == IF d < 10 THEN 48 + d ELSE 55 + d

\* "".join("%02X" % b for b in l_data)
raw_value(l_data) ==
    IF IsOk(l_data)
    THEN Ok(StrValue([i \in 1..(2 * Len(l_data.val)) |->
                        IF i % 2 = 1
                        THEN HexChar(l_data.val[(i + 1) \div 2] \div 16)
                        ELSE HexChar(l_data.val[(i + 1) \div 2] % 16)]))
    ELSE l_data

AbsFieldRawData_decode_data(data, offset, bit_width) ==
    raw_value(extract(data, offset, bit_width))

\* cls._decode_spec(spec)
decode_spec(cls, spec) ==
    IF cls = "AbsFieldAscii" THEN AbsFieldAscii_decode_spec(spec)
    ELSE decode_spec_common(spec)

\* cls._decode_data(data, offset), once the spec gave the bit width
decode_data(cls, data, offset, l_width) ==
    CASE cls \in IntegerClasses -> AbsFieldInteger_decode_data(data, offset, l_width)
      [] cls = "AbsFieldBoolean" -> AbsFieldBoolean_decode_data(data, offset)
      [] cls = "AbsFieldAscii" -> AbsFieldAscii_decode_data(data, offset, l_width)
      [] OTHER -> AbsFieldRawData_decode_data(data, offset, l_width)

\* "if self._bit_width > 0: self._raw_data = extract(data, offset, bit_width)"
raw_data_of(data, offset, l_width) ==
    IF l_width > 0 THEN extract(data, offset, l_width) ELSE Ok(<<>>)

\* the field, unless the value or the raw data raised
leaf_field(cls, l_spec, l_value, l_raw, start) ==
    IF ~IsOk(l_value) THEN l_value
    ELSE IF ~IsOk(l_raw) THEN l_raw
    ELSE Ok(Field(cls, l_spec.id, l_spec.bit_width, l_value.val, l_spec.is_tagged,
                  l_raw.val, start, <<>>, <<>>))

\* _parse_args once _decode_spec returned
parse_args_decoded(cls, l_spec, data, offset, base) ==
    IF ~IsOk(l_spec) THEN l_spec
    ELSE IF offset >= 8 THEN Raise("AbsDecodingError")
    ELSE leaf_field(cls, l_spec.val,
                    decode_data(cls, data, offset, l_spec.val.bit_width),
                    raw_data_of(data, offset, l_spec.val.bit_width),
                    to_offset(base, offset))

\* AbsFieldMixin._parse_args for the classes that decode without recursion.
\* spec is the sequence of items the constructor receives; base is the number
\* of bytes of the input that precede data.
parse_args_leaf(cls, spec, data, offset, base) ==
    parse_args_decoded(cls, decode_spec(cls, spec), data, offset, base)

\* a placeholder that takes one bit
AbsFieldPlaceholder_newMutant(spec, data, offset, base) ==
    IF spec.t = "str" /\ spec.s = "" THEN Raise("IndexError")
    ELSE IF offset >= 8 THEN Raise("AbsDecodingError")
    ELSE Ok(Field("AbsFieldPlaceholder",
                  IF spec.t = "str" THEN spec.s ELSE spec.v[1].s,
                  1, NoneValue, FALSE, <<>>, to_offset(base, offset), <<>>, <<>>))

\* AbsFieldPlaceholder(spec, data, offset, context); spec is the node itself
AbsFieldPlaceholder_new(spec, data, offset, base) ==
    IF spec.t = "str" /\ spec.s = "" THEN Raise("IndexError")
    ELSE IF offset >= 8 THEN Raise("AbsDecodingError")
    ELSE Ok(Field("AbsFieldPlaceholder",
                  IF spec.t = "str" THEN spec.s ELSE spec.v[1].s,
                  0, NoneValue, FALSE, <<>>, to_offset(base, offset), <<>>, <<>>))

\* AbsFactory._make_helper_class: the class leaves the spec
helper_class_spec(spec) ==
    [i \in 1..(Len(spec.v) - 1) |-> IF i < 3 THEN spec.v[i] ELSE spec.v[i + 1]]

\* AbsFactory._make_helper_class: the class leaves the spec, then is called
make_helper_class(spec, data, offset, base) ==
    parse_args_leaf(spec.v[3].c, helper_class_spec(spec), data, offset, base)

----------------------------------------------------------------------------
(* AdvancedBinaryStructure.py : the factory. A call of AbsFactory.make     *)
(* either raises, or returns a field decoded without recursion, or calls   *)
(* the constructor of AbsFieldStruct or AbsFieldDynArray, which runs as a  *)
(* frame of the stack. ctx is the position in heap of the context dict     *)
(* passed, 0 for None.                                                     *)

Returned(f) == Ok([tag |-> "field", field |-> f])

Called(cls, spec, data, offset, ctx, base) ==
    Ok([tag |-> "call", cls |-> cls, spec |-> spec, data |-> data,
        offset |-> offset, ctx |-> ctx, base |-> base])

\* wraps the outcome of a constructor that does not recurse
Leaf(r) == IF IsOk(r) THEN Returned(r.val) ELSE r

RECURSIVE make(_, _, _, _, _, _)

\* a switch with a default branch: an empty field when nothing is selected
make_switchMutant(spec, data, offset, ctx, base, heap) ==
    IF \/ ctx = 0
       \/ spec.v[2].s \notin DOMAIN heap[ctx]
       \/ ~DictHas(spec.v[3], heap[ctx][spec.v[2].s].value)
    THEN Leaf(AbsFieldPlaceholder_new(S("default"), data, offset, base))
    ELSE make(DictGet(spec.v[3], heap[ctx][spec.v[2].s].value),
              data, offset, ctx, base, heap)

\* a switch that hands over the field of its branch under the name of its
\* target, as a node of its own
make_switchWrapperMutant(spec, data, offset, ctx, base, heap) ==
    IF \/ ctx = 0
       \/ spec.v[2].s \notin DOMAIN heap[ctx]
       \/ ~DictHas(spec.v[3], heap[ctx][spec.v[2].s].value)
    THEN Raise("AbsDecodingError")
    ELSE IF make(DictGet(spec.v[3], heap[ctx][spec.v[2].s].value),
                 data, offset, ctx, base, heap).err = NoError
            /\ make(DictGet(spec.v[3], heap[ctx][spec.v[2].s].value),
                    data, offset, ctx, base, heap).val.tag = "field"
    THEN Returned([make(DictGet(spec.v[3], heap[ctx][spec.v[2].s].value),
                        data, offset, ctx, base, heap).val.field
                      EXCEPT !.id = spec.v[2].s])
    ELSE make(DictGet(spec.v[3], heap[ctx][spec.v[2].s].value),
              data, offset, ctx, base, heap)

make_switch(spec, data, offset, ctx, base, heap) ==
    IF ctx = 0 THEN Raise("AbsDecodingError")
    ELSE IF spec.v[2].s \notin DOMAIN heap[ctx] THEN Raise("AbsDecodingError")
    ELSE IF DictHas(spec.v[3], heap[ctx][spec.v[2].s].value)
    THEN make(DictGet(spec.v[3], heap[ctx][spec.v[2].s].value),
              data, offset, ctx, base, heap)
    ELSE Raise("AbsDecodingError")

\* the sub-factory of make for each type of spec
make_typed(l_spec_type, spec, data, offset, ctx, base, heap) ==
    IF ~IsOk(l_spec_type) THEN l_spec_type
    ELSE CASE l_spec_type.val = SPEC_PLACEHOLDER ->
                Leaf(AbsFieldPlaceholder_new(spec, data, offset, base))
           [] l_spec_type.val = SPEC_BOOLEAN ->
                Leaf(parse_args_leaf("AbsFieldBoolean", spec.v, data, offset, base))
           [] l_spec_type.val = SPEC_INTEGER ->
                Leaf(parse_args_leaf("AbsFieldInteger", spec.v, data, offset, base))
           [] l_spec_type.val = SPEC_HELPER_CLASS ->
                Leaf(make_helper_class(spec, data, offset, base))
           [] l_spec_type.val = SPEC_STRUCT ->
                Called("AbsFieldStruct", spec, data, offset, ctx, base)
           [] l_spec_type.val = SPEC_SWITCH ->
                make_switch(spec, data, offset, ctx, base, heap)
           [] l_spec_type.val = SPEC_DYN_ARRAY ->
                Called("AbsFieldDynArray", spec, data, offset, ctx, base)
           [] OTHER -> Raise("AbsFieldSpecError")

make(spec, data, offset, ctx, base, heap) ==
    make_typed(spec_type(spec), spec, data, offset, ctx, base, heap)

\* "if context is None: l_context = {} else: l_context = context"
HeapAfter(ctx, heap) == IF ctx = 0 THEN Append(heap, <<>>) ELSE heap

\* one context for every decode, kept at module level
ContextOfMutant(ctx, heap) == IF ctx = 0 THEN 1 ELSE ctx

ContextOf(ctx, heap) == IF ctx = 0 THEN Len(heap) + 1 ELSE ctx

\* AbsFieldDynArray._decode_spec: the specification of one element
child_spec(spec) ==
    IF Len(spec.v) = 5
    THEN IF spec.v[5].t = "list" THEN T(<<S("child"), spec.v[5]>>)
         ELSE T(<<S("child"), spec.v[4], spec.v[5]>>)
    ELSE T(<<S("child"), spec.v[4]>>)

\* the specification of the header of a dynamic array
header_spec(header_type, header_bitwidth) ==
    IF header_type = NB_ELTS
    THEN T(<<S("length"), header_bitwidth, Cls("LengthField")>>)
    ELSE T(<<S("size"), header_bitwidth, Cls("SizeField")>>)

\* l_end_offset of AbsFieldDynArray._decode_data
SizeInclEnd(offset, value, bit_width) == offset + value * bit_width

SizeExclEndMutant(offset, value, bit_width) == offset + value * bit_width

SizeExclEnd(offset, value, bit_width) == offset + (value + 1) * bit_width

\* The frame of AbsFieldStruct up to its first loop test: _decode_spec, the
\* offset test, the context, l_offset.
StructFrame(c, heap) ==
    [cls |-> c.cls, id |-> c.spec.v[1].s, spec |-> c.spec.v[2].v,
     data |-> c.data, offset |-> c.offset, base |-> c.base,
     ctx |-> ContextOf(c.ctx, heap), l_offset |-> c.offset,
     next |-> 1, items |-> <<>>, kids |-> <<>>]

\* the header of a dynamic array, made by the factory
ArrayHeader(c, heap) ==
    make(header_spec(c.spec.v[3], c.spec.v[4]),
         PyTail(c.data, to_bitwise_addr(c.offset)[1]), to_bitwise_addr(c.offset)[2],
         ContextOf(c.ctx, heap), c.base + to_bitwise_addr(c.offset)[1],
         HeapAfter(c.ctx, heap))

\* The frame of AbsFieldDynArray up to its first loop test, the header
\* decoded with value l_value.
ArrayFrame(c, heap, l_header, l_value) ==
    [cls |-> c.cls, id |-> c.spec.v[2].s, spec |-> child_spec(c.spec),
     header_type |-> c.spec.v[3],
     data |-> c.data, offset |-> c.offset, base |-> c.base,
     ctx |-> ContextOf(c.ctx, heap),
     l_offset |-> c.offset + l_header.bit_width,
     l_end_offset |->
         IF c.spec.v[3] = SIZE_INCL
         THEN SizeInclEnd(c.offset, l_value, l_header.bit_width)
         ELSE IF c.spec.v[3] = SIZE_EXCL
         THEN SizeExclEnd(c.offset, l_value, l_header.bit_width)
         ELSE 0,
     header |-> l_header,
     elts |-> <<>>, kids |-> <<l_header>>]

\* the frame of an array once the factory came back from the header
ArrayFramed(c, heap, l_made) ==
    IF ~IsOk(l_made) THEN l_made
    ELSE Ok(ArrayFrame(c, heap, l_made.val.field, IntOf(l_made.val.field.value.n)))

\* the frame of a constructor that make called
NewFrame(c, heap) ==
    IF c.offset >= 8 THEN Raise("AbsDecodingError")
    ELSE IF c.cls = "AbsFieldStruct" THEN Ok(StructFrame(c, heap))
    ELSE ArrayFramed(c, heap, ArrayHeader(c, heap))

\* self[key] = val on an OrderedDict: a known key keeps its place
OrderedDictSet(items, key, val) ==
    IF \E i \in 1..Len(items) : items[i].key = key
    THEN [i \in 1..Len(items) |->
            IF items[i].key = key THEN [key |-> key, val |-> val] ELSE items[i]]
    ELSE Append(items, [key |-> key, val |-> val])

\* the bit width a struct or an array reports: l_offset - offset
SpanWidthMutant(l_offset, offset) == l_offset

SpanWidth(l_offset, offset) == l_offset - offset

\* whether a returned child enters the context
RegistersMutant(child) == FALSE

Registers(child) == child.is_tagged

\* "if l_child.id() in l_context", asked of a tagged child
IsDuplicateTagMutant(child, context) == FALSE

IsDuplicateTag(child, context) == child.id \in DOMAIN context

\* "self[l_child.id()] = l_child"
Stored(frame, child) ==
    [frame EXCEPT !.items = OrderedDictSet(@, child.id, child),
                  !.kids = Append(@, child)]

\* What the loop body of the running constructor does with the field that
\* make returned: [frame, heap, err].
\* AbsFieldStruct: the child enters the mapping, then the context if it is
\* tagged (AbsDecodingError if its id is there), and the cursor advances.
\* AbsFieldDynArray: the element is appended and the cursor advances.
Deliver(frame, child, heap) ==
    IF frame.cls = "AbsFieldStruct" THEN
        IF Registers(child) /\ IsDuplicateTag(child, heap[frame.ctx])
        THEN [frame |-> Stored(frame, child), heap |-> heap,
              err |-> "AbsDecodingError"]
        ELSE [frame |-> [Stored(frame, child) EXCEPT
                            !.l_offset = @ + child.bit_width,
                            !.next = @ + 1],
              heap |-> IF Registers(child)
                       THEN [heap EXCEPT ![frame.ctx] = (child.id :> child) @@ @]
                       ELSE heap,
              err |-> NoError]
    ELSE [frame |-> [frame EXCEPT
                        !.elts = Append(@, child),
                        !.kids = Append(@, child),
                        !.l_offset = @ + child.bit_width],
          heap |-> heap, err |-> NoError]

\* the mapping a constructor built
ItemsOf(frame) ==
    IF frame.cls = "AbsFieldStruct" THEN frame.items
    ELSE <<[key |-> frame.header.id, val |-> frame.header],
           [key |-> "data", val |-> frame.elts]>>

\* the field of a constructor, unless its raw data raised
container_field(frame, l_bit_width, l_raw) ==
    IF ~IsOk(l_raw) THEN l_raw
    ELSE Ok(Field(frame.cls, frame.id, l_bit_width, NoneValue, FALSE, l_raw.val,
                  to_offset(frame.base, frame.offset), ItemsOf(frame), frame.kids))

\* The field a constructor returns when its loop is over: the bit width,
\* then _parse_args extracts the raw data.
Completed(frame) ==
    container_field(frame, SpanWidth(frame.l_offset, frame.offset),
                    raw_data_of(frame.data, frame.offset,
                                SpanWidth(frame.l_offset, frame.offset)))

----------------------------------------------------------------------------
(* The decoder as a state machine: one step per call of AbsFactory.make    *)
(* made by a running constructor, and one per constructor that returns.    *)

\* a hexadecimal string is the sequence of its digits, each in 0..15
hex_str_to_u8(hex_str) ==
    IF Len(hex_str) % 2 # 0 THEN Raise("HexUtilsInputSizeError")
    ELSE Ok([i \in 1..(Len(hex_str) \div 2) |->
               16 * hex_str[2 * i - 1] + hex_str[2 * i]])

Failed(stk, heap, e) ==
    [stack |-> stk, ctxs |-> heap, pc |-> "done", result |-> [err |-> e]]

\* what the entry point returns once the outermost field is there:
\* AdvancedBinaryStructure.__init__ adds the remaining data and the statistics
Finished(in, stk, heap, f) ==
    [stack |-> stk, ctxs |-> heap, pc |-> "done",
     result |->
        IF in.entry = "AdvancedBinaryStructure"
        THEN [err |-> NoError,
              data |-> in.hex_str,
              decoded_data |-> f,
              remaining_data |-> PyTail(in.hex_str, (f.bit_width \div 8) * 2),
              statistics |->
                  [decoded |-> to_bitwise_addr(f.bit_width),
                   remaining |-> to_bitwise_addr(Len(in.hex_str) * 4 - f.bit_width)]]
        ELSE [err |-> NoError, decoded_data |-> f]]

Running(stk, heap) ==
    [stack |-> stk, ctxs |-> heap, pc |-> "running", result |-> [err |-> "pending"]]

\* a constructor that make called becomes the top frame
Entered(stk, heap, c, l_frame) ==
    IF ~IsOk(l_frame) THEN Failed(stk, heap, l_frame.err)
    ELSE Running(Append(stk, l_frame.val), HeapAfter(c.ctx, heap))

\* a field went to the loop of the top frame
Delivered(stk, heap, l_done) ==
    IF l_done.err # NoError
    THEN Failed([stk EXCEPT ![Len(stk)] = l_done.frame], heap, l_done.err)
    ELSE Running([stk EXCEPT ![Len(stk)] = l_done.frame], l_done.heap)

\* The state after a call of make came back with outcome r to the
\* constructors stk: an exception ends the decode, a constructor called
\* becomes the top frame, a field returned goes to the loop of the top frame
\* or, with no frame left, to the entry point.
After(in, stk, heap, r) ==
    IF ~IsOk(r) THEN Failed(stk, heap, r.err)
    ELSE IF r.val.tag = "call" THEN Entered(stk, heap, r.val, NewFrame(r.val, heap))
    ELSE IF stk = <<>> THEN Finished(in, stk, heap, r.val.field)
    ELSE Delivered(stk, heap, Deliver(stk[Len(stk)], r.val.field, heap))

Goto(n) ==
    /\ stack' = n.stack
    /\ ctxs' = n.ctxs
    /\ pc' = n.pc
    /\ result' = n.result

Top == stack[Len(stack)]

Below == SubSeq(stack, 1, Len(stack) - 1)

\* most elements the model lets one dynamic array decode
MaxElts == 4

\* the context an array hands to make for its elements: none
ElementContext(frame) == 0

\* a loop that asks for one element more than the header counts
MoreElementsMutant(frame) ==
    IF frame.header_type = NB_ELTS
    THEN Len(frame.elts) <= IntOf(frame.header.value.n)
    ELSE frame.l_offset < frame.l_end_offset

\* the loop test of AbsFieldDynArray._decode_data
MoreElements(frame) ==
    IF frame.header_type = NB_ELTS
    THEN Len(frame.elts) < IntOf(frame.header.value.n)
    ELSE frame.l_offset < frame.l_end_offset

\* the spec the entry point hands to the factory
EntrySpec(in) ==
    IF in.entry = "AdvancedBinaryStructure" THEN T(<<S("root"), L(in.spec.v)>>)
    ELSE in.spec

\* the decode once the hexadecimal string is converted
Started(in, l_data) ==
    IF ~IsOk(l_data) THEN Failed(<<>>, <<>>, l_data.err)
    ELSE After(in, <<>>, <<>>, make(EntrySpec(in), l_data.val, 0, 0, 0, <<>>))

\* AdvancedBinaryStructure(hex_str, spec), or AbsFactory.make(spec, hex_str)
Begin(in) ==
    /\ pc = "idle"
    /\ input' = in
    /\ Goto(Started(in, hex_str_to_u8(in.hex_str)))
    /\ UNCHANGED xvars

\* the whole buffer and the cursor handed on as they are
MakeAtMutant(frame, spec, ctx, heap) ==
    make(spec, frame.data, frame.l_offset, ctx, frame.base, heap)

\* the call of make for the field at the cursor of a frame
MakeAt(frame, spec, ctx, heap) ==
    make(spec, PyTail(frame.data, to_bitwise_addr(frame.l_offset)[1]),
         to_bitwise_addr(frame.l_offset)[2], ctx,
         frame.base + to_bitwise_addr(frame.l_offset)[1], heap)

\* one iteration of the loop of AbsFieldStruct._decode_data
StructStep ==
    /\ pc = "running"
    /\ Top.cls = "AbsFieldStruct"
    /\ Top.next <= Len(Top.spec)
    /\ Goto(After(input, stack, ctxs, MakeAt(Top, Top.spec[Top.next], Top.ctx, ctxs)))
    /\ UNCHANGED <<input, xvars>>

\* the loop of AbsFieldStruct._decode_data is over: the struct returns
StructReturn ==
    /\ pc = "running"
    /\ Top.cls = "AbsFieldStruct"
    /\ Top.next > Len(Top.spec)
    /\ Goto(After(input, Below, ctxs, Leaf(Completed(Top))))
    /\ UNCHANGED <<input, xvars>>

\* one iteration of a loop of AbsFieldDynArray._decode_data
ArrayStep ==
    /\ pc = "running"
    /\ Top.cls = "AbsFieldDynArray"
    /\ MoreElements(Top)
    /\ Len(Top.elts) < MaxElts
    /\ Goto(After(input, stack, ctxs, MakeAt(Top, Top.spec, ElementContext(Top), ctxs)))
    /\ UNCHANGED <<input, xvars>>

\* the loop of AbsFieldDynArray._decode_data is over: the array returns
ArrayReturn ==
    /\ pc = "running"
    /\ Top.cls = "AbsFieldDynArray"
    /\ ~MoreElements(Top)
    /\ Goto(After(input, Below, ctxs, Leaf(Completed(Top))))
    /\ UNCHANGED <<input, xvars>>

----------------------------------------------------------------------------
(* The inputs the decoder is run on.                                       *)

\* the hexadecimal string of a byte list
HexOf(bytes) ==
    [i \in 1..(2 * Len(bytes)) |->
       IF i % 2 = 1 THEN bytes[(i + 1) \div 2] \div 16 ELSE bytes[(i + 1) \div 2] % 16]

\* a bit string as bytes, zero bits added up to the byte boundary
Pack(bits) ==
    [j \in 1..((Len(bits) + 7) \div 8) |->
       SeqSum([k \in 1..8 |->
                 IF 8 * (j - 1) + k <= Len(bits)
                 THEN bits[8 * (j - 1) + k] * (2 ^ (8 - k))
                 ELSE 0])]

\* the number v < 2^20 on w bits, most significant bit first
NumBits(v, w) == [i \in 1..w |-> IF w - i > 20 THEN 0 ELSE (v \div (2 ^ (w - i))) % 2]

\* byte i (1-based) of the test buffer of the given pattern
PatternByte(p, i) ==
    CASE p = 1 -> 255
      [] p = 2 -> 195
      [] p = 3 -> (i * 37 + 11) % 256
      [] p = 4 -> 2 ^ ((i * 3) % 8)
      [] p = 5 -> IF i % 2 = 1 THEN 165 ELSE 90
      [] OTHER -> 1

Patterns == 1..6

Buffer(p, n) == [i \in 1..n |-> PatternByte(p, i)]

\* the bits of a buffer
BitsOf(bytes) == [i \in 1..(8 * Len(bytes)) |-> BitOf(bytes[((i - 1) \div 8) + 1], (i - 1) % 8)]

AbsInput(spec, bytes) ==
    [entry |-> "AdvancedBinaryStructure", spec |-> L(spec), hex_str |-> HexOf(bytes)]

MakeInput(spec, bytes) ==
    [entry |-> "AbsFactory.make", spec |-> spec, hex_str |-> HexOf(bytes)]

\* a field of o bits that brings the cursor to bit o
Pre(o) == IF o = 0 THEN <<>> ELSE << T(<<S("p"), I(o)>>) >>

\* one integer field of every width at every bit offset
IntegerInputs ==
    {AbsInput(Pre(o) \o << T(<<S("x"), I(w)>>) >>, d) :
        o \in 0..7, w \in 2..PARAM_MAX_INTEGER_BIT_WIDTH,
        d \in {Buffer(1, 9), Buffer(3, 9), Buffer(1, 5)}}

\* most children of the structs built in every way from the pool below
MaxChildren == 2

TaggedT == T(<<S("t"), I(2), TAGGED>>)

TaggedU == T(<<S("u"), I(1), TAGGED>>)

SwitchT ==
    L(<<SWITCH, S("t"),
        D(<<I(0), I(1), I(2)>>,
          <<T(<<S("a"), I(3)>>), S("a"), TaggedU>>)>>)

SwitchU ==
    L(<<SWITCH, S("u"),
        D(<<B(1), B(0)>>,
          <<T(<<S("c"), L(<<T(<<S("c1"), I(4)>>), SwitchT>>)>>), S("c")>>)>>)

StructWithSwitch == T(<<S("s"), L(<<SwitchT, T(<<S("b"), I(4)>>)>>)>>)

StructWithTag == T(<<S("s"), L(<<T(<<S("b"), I(3)>>), TaggedT>>)>>)

PlainInt == T(<<S("a"), I(5)>>)

Pool == {TaggedT, TaggedU, SwitchT, SwitchU, StructWithSwitch, StructWithTag, PlainInt}

ContextData ==
    {<<0, 0, 0>>, <<64, 255, 0>>, <<128, 85, 170>>, <<192, 60, 15>>,
     <<165, 90, 195>>, <<99>>}

\* longer structs: a switch after two fields, tags repeated by a switch
\* branch or by a nested struct, a switch on a tag that a switch branch made
LongStructs ==
    {<<TaggedT, PlainInt, SwitchT>>,
     <<TaggedT, SwitchT, TaggedU>>,
     <<TaggedT, SwitchT, SwitchU>>,
     <<TaggedU, TaggedT, SwitchU>>,
     <<TaggedT, StructWithTag, SwitchT>>,
     <<StructWithTag, TaggedT, PlainInt>>,
     <<TaggedT, StructWithSwitch, TaggedU>>,
     <<PlainInt, TaggedT, StructWithSwitch>>}

\* every struct of at most MaxChildren fields of the pool, and the longer ones
ContextInputs ==
    {AbsInput(c, d) :
        c \in UNION {[1..n -> Pool] : n \in 0..MaxChildren} \cup LongStructs,
        d \in ContextData}

\* largest header value of the arrays decoded
MaxHeader == 3

\* most bytes that follow the header of the arrays decoded
MaxPayload == 8

\* the numbers of bytes that follow the header
Payloads == {0, 1, 2, 4, MaxPayload}

ElementSpecs ==
    {<<>>,
     <<Cls("AbsFieldAscii")>>,
     <<Cls("AbsFieldRawData")>>,
     <<L(<<T(<<S("e"), I(8)>>)>>)>>,
     <<L(<<T(<<S("i"), I(7)>>), T(<<S("b"), I(1)>>),
           T(<<S("s"), I(16), Cls("AbsFieldAscii")>>)>>)>>,
     <<L(<<T(<<S("e"), I(3)>>)>>)>>,
     <<L(<<T(<<S("e"), I(12)>>)>>)>>,
     <<L(<<>>)>>,
     <<L(<<S("ph")>>)>>}

HeaderModes == {NB_ELTS, SIZE_EXCL, SIZE_INCL}

HeaderUnits == {8, 16, 32, 64}

ArraySpec(mode, unit, elt) == L(<<DYN_ARRAY, S("arr"), mode, I(unit)>> \o elt)

\* o bits, then the header value v on unit bits, then n payload bytes
ArrayData(o, unit, v, n) ==
    Pack(NumBits(0, o) \o NumBits(v, unit) \o BitsOf(Buffer(3, n)))

ArrayInputs ==
    {AbsInput(Pre(o) \o <<ArraySpec(m, u, e)>>, ArrayData(o, u, v, n)) :
        o \in {0, 3}, m \in HeaderModes, u \in HeaderUnits, e \in ElementSpecs,
        v \in 0..MaxHeader, n \in Payloads}

\* a switch below an array, on a field tagged before the array or in the element
ArraySwitchSpecs ==
    {<<TaggedT, ArraySpec(m, 8, <<L(e)>>)>> :
        m \in HeaderModes,
        e \in {<<SwitchT>>, <<TaggedT, SwitchT>>, <<TaggedT>>,
               <<T(<<S("e"), I(6)>>), TaggedU, SwitchU>>}}
    \cup {<<TaggedT, T(<<S("s"), L(<<ArraySpec(NB_ELTS, 8, <<L(<<SwitchT>>)>>)>>)>>)>>}

ArraySwitchInputs ==
    {AbsInput(c, Pack(NumBits(t, 2) \o NumBits(v, 8) \o BitsOf(Buffer(p, 3)))) :
        c \in ArraySwitchSpecs, t \in 0..3, v \in 0..2, p \in {3, 6}}

\* AbsFactory.make called directly, without a context
DirectInputs ==
    {MakeInput(c, d) :
        c \in {SwitchT, PlainInt, S("ph"), TaggedT, StructWithTag, StructWithSwitch,
               ArraySpec(NB_ELTS, 8, <<>>),
               T(<<S("r"), I(12), Cls("AbsFieldRawData"), TAGGED>>)},
        d \in ContextData}

\* nodes that the classifier does not accept
BadNodes ==
    {T(<<S("b"), I(65)>>), T(<<S("b"), I(3), S("FOO")>>), T(<<>>),
     T(<<S("b"), I(12), Cls("AbsFieldAscii")>>)}

\* child lists with a node that is not accepted: behind a valid field, in
\* a nested struct, in a switch branch that the data does not select, in the
\* element of an array
BadSpecs ==
    UNION {{<<bad>>,
            <<PlainInt, bad>>,
            <<TaggedT, T(<<S("s"), L(<<PlainInt, bad>>)>>)>>,
            <<TaggedT, L(<<SWITCH, S("t"),
                           D(<<I(0), I(1), I(3)>>, <<PlainInt, S("a"), bad>>)>>)>>,
            <<PlainInt, ArraySpec(NB_ELTS, 8, <<L(<<bad>>)>>)>>} :
           bad \in BadNodes}

\* hexadecimal strings, two of them of odd length
BadSpecData == {<<>>, <<0, 0, 0, 0>>, <<4, 0, 10, 10>>, <<12, 10, 15>>, <<7>>}

InvalidSpecInputs ==
    {[entry |-> "AdvancedBinaryStructure", spec |-> L(c), hex_str |-> h] :
        c \in BadSpecs, h \in BadSpecData}

\* one field of each kind that decodes without recursion, and an array, at
\* bit 0 and at bit 7, on 0 to 3 bytes
ShortInputs ==
    {AbsInput(Pre(o) \o <<f>>, Buffer(3, n)) :
        o \in {0, 7},
        f \in {T(<<S("x"), I(1)>>), T(<<S("x"), I(9)>>), T(<<S("x"), I(16)>>),
               T(<<S("x"), I(16), Cls("AbsFieldAscii")>>),
               T(<<S("x"), I(9), Cls("AbsFieldRawData")>>),
               T(<<S("x"), I(1), Cls("AbsFieldBoolean")>>),
               T(<<S("x"), I(9), Cls("AbsFieldInteger")>>),
               ArraySpec(NB_ELTS, 16, <<>>), ArraySpec(SIZE_INCL, 8, <<>>)},
        n \in 0..3}

PlaceholderStr == S("ph")

PlaceholderTuple == T(<<S("ph"), I(0)>>)

\* placeholders in front of, between and behind the fields of a struct, in a
\* nested struct, and on no data at all
PlaceholderInputs ==
    {AbsInput(c, d) :
        c \in {<<PlaceholderStr>>,
               <<PlaceholderTuple>>,
               <<T(<<S("p"), I(3)>>), PlaceholderStr, T(<<S("x"), I(9)>>)>>,
               <<PlaceholderStr, PlaceholderTuple, T(<<S("x"), I(8)>>), PlaceholderStr>>,
               <<TaggedT, PlaceholderTuple, SwitchT>>,
               <<T(<<S("s"), L(<<PlaceholderStr, T(<<S("x"), I(4)>>)>>)>>),
                 PlaceholderStr, StructWithTag>>,
               <<T(<<S("x"), I(8)>>), PlaceholderTuple,
                 ArraySpec(NB_ELTS, 8, <<>>)>>},
        d \in {<<>>, <<1>>, <<165, 90, 195>>}}

\* fields wider than a 64-bit word: raw data and ASCII of 94 and 72 bits, a
\* nested struct of 71 bits, at bit 0 and at bit 3
WideInputs ==
    {AbsInput(Pre(o) \o <<f>>, Buffer(p, 13)) :
        o \in {0, 3}, p \in {3, 5},
        f \in {T(<<S("r"), I(94), Cls("AbsFieldRawData")>>),
               T(<<S("a"), I(72), Cls("AbsFieldAscii")>>),
               T(<<S("s"), L(<<T(<<S("x"), I(64)>>), T(<<S("y"), I(7)>>)>>)>>)}}

\* tagged raw data and ASCII of a width below 1, which the classifier lets
\* through, at bit 0 and at bit 12, alone and in front of another field
TaggedHelperInputs ==
    {AbsInput(Pre(o) \o <<T(<<S("a"), I(w), Cls(c), TAGGED>>)>> \o t, Buffer(3, 3)) :
        o \in {0, 12},
        w \in {0 - 16, 0 - 15, 0 - 8, 0 - 3, 0},
        c \in {"AbsFieldRawData", "AbsFieldAscii"},
        t \in {<<>>, <<T(<<S("c"), I(7)>>)>>}}

Inputs == IntegerInputs \cup ContextInputs \cup ArrayInputs \cup ArraySwitchInputs
              \cup DirectInputs \cup InvalidSpecInputs \cup ShortInputs
              \cup PlaceholderInputs \cup WideInputs \cup TaggedHelperInputs

NoInput == [entry |-> "none", spec |-> S(""), hex_str |-> <<>>]

DInit ==
    /\ pc = "idle"
    /\ input = NoInput
    /\ stack = <<>>
    /\ ctxs = <<>>
    /\ result = [err |-> "pending"]

\* the decoder is not used
DOff ==
    /\ pc = "off"
    /\ input = NoInput
    /\ stack = <<>>
    /\ ctxs = <<>>
    /\ result = [err |-> "pending"]

\* the bit arithmetic harness is not used
XOff ==
    /\ xpc = "off"
    /\ xin = <<>>
    /\ xout = <<>>

Init == DInit /\ XOff

Next ==
    \/ \E in \in Inputs : Begin(in)
    \/ StructStep
    \/ StructReturn
    \/ ArrayStep
    \/ ArrayReturn

Spec == Init /\ [][Next]_vars

----------------------------------------------------------------------------
(* Harness for the pure functions of HexUtils.py: Init draws the arguments *)
(* from bounded sets, one action per function applies it.                  *)

\* longest byte buffer handed to the bit arithmetic
MaxBufLen == 10

XInputs ==
    [fn : {"extract"},
     data : {Buffer(p, n) : p \in Patterns, n \in 1..MaxBufLen},
     offset : 0..7,
     width : 1..PARAM_MAX_INTEGER_BIT_WIDTH]

XInit ==
    /\ xpc = "input"
    /\ xin \in XInputs
    /\ xout = Raise("pending")

Extract ==
    /\ xpc = "input"
    /\ xin.fn = "extract"
    /\ xout' = extract(xin.data, xin.offset, xin.width)
    /\ xpc' = "done"
    /\ UNCHANGED <<xin, dvars>>

XNext == Extract

BitsInit == XInit /\ DOff

SpecBits == BitsInit /\ [][XNext]_vars

----------------------------------------------------------------------------
(* Harness for the classifier AbsFactory.spec_type: Init draws the         *)
(* specification from a bounded set of nodes, in and outside the grammar,  *)
(* and one action classifies it.                                           *)

\* largest width of the specifications classified
MaxSpecWidth == 66

\* how far below zero the widths of the specifications classified go
MaxNegWidth == 2

SpecWidths == (0 - MaxNegWidth)..MaxSpecWidth

\* widths handed to the helper classes: the above, and multiples of 8 outside
HelperWidths == SpecWidths \cup {0 - 8, 72}

\* the helper classes, and a class that is none
SpecClasses == HelperClasses \cup {"int"}

\* (identifier, width) and (identifier, width, TAGGED)
WidthSpecs ==
    {T(<<S("a"), I(w)>> \o g) : w \in SpecWidths, g \in {<<>>, <<TAGGED>>}}

\* (identifier, width, class) and (identifier, width, class, TAGGED)
HelperSpecs ==
    {T(<<S("a"), I(w), Cls(c)>> \o g) :
        w \in HelperWidths, c \in SpecClasses, g \in {<<>>, <<TAGGED>>}}

\* what follows the unit width in the specification of a dynamic array
ArrayTails ==
    {<<>>,
     <<L(<<>>)>>,
     <<L(<<T(<<S("e"), I(8)>>), S("ph")>>)>>,
     <<L(<<T(<<S("e"), I(8)>>), T(<<S("f"), I(65)>>)>>)>>,
     <<L(<<T(<<S("e"), I(4), Cls("AbsFieldAscii")>>)>>)>>,
     <<L(<<T(<<>>)>>)>>,
     <<L(<<T(<<S("e"), I(3), S("FOO")>>)>>)>>,
     <<T(<<S("e"), I(8)>>)>>,
     <<S("e")>>,
     <<I(8)>>,
     <<L(<<>>), I(1)>>,
     <<L(<<>>), TAGGED, I(1)>>}
    \cup {<<Cls(c)>> : c \in SpecClasses}

\* lists that start with DYN_ARRAY
ArrayNodes ==
    {L(<<DYN_ARRAY, id, mode, unit>> \o tail) :
        id \in {S("arr"), I(3)},
        mode \in HeaderModes \cup {S("X"), TAGGED},
        unit \in {I(8), I(16), I(32), I(64), I(12), I(0), S("8"), B(1)},
        tail \in ArrayTails}
    \cup {L(<<DYN_ARRAY>>), L(<<DYN_ARRAY, S("arr")>>),
          L(<<DYN_ARRAY, S("arr"), NB_ELTS>>)}

\* structs, switches, placeholders and nodes outside the grammar
OtherNodes ==
    {S("a"), S(""), T(<<S("a")>>), T(<<>>), L(<<>>), I(5), B(1), Cls("AbsFieldInteger"),
     D(<<>>, <<>>), T(<<I(3)>>), T(<<I(3), I(4)>>), T(<<S("a"), S("b")>>),
     T(<<S("a"), B(1)>>), T(<<S("a"), S("b"), TAGGED>>),
     T(<<S("a"), I(3), S("FOO")>>), T(<<S("a"), I(1), S("FOO")>>),
     T(<<S("a"), I(65), S("FOO")>>), T(<<S("a"), I(3), I(7)>>),
     T(<<S("a"), I(3), L(<<>>)>>), T(<<S("a"), I(0), S("FOO")>>),
     T(<<S("a"), I(3), S("FOO"), TAGGED>>),
     T(<<S("a"), I(3), Cls("AbsFieldInteger"), S("FOO")>>),
     T(<<S("a"), I(3), Cls("int"), S("FOO")>>),
     T(<<S("a"), S("b"), Cls("AbsFieldInteger"), TAGGED>>),
     T(<<S("a"), I(3), Cls("AbsFieldInteger"), TAGGED, TAGGED>>),
     T(<<S("s"), L(<<>>)>>), T(<<S("s"), L(<<PlainInt, TaggedT, SwitchT>>)>>),
     T(<<S("s"), L(<<PlainInt, T(<<S("b"), I(65)>>)>>)>>),
     T(<<S("s"), L(<<T(<<>>)>>)>>), T(<<S("s"), L(<<T(<<S("b"), I(3), S("FOO")>>)>>)>>),
     T(<<S("s"), L(<<StructWithSwitch, T(<<S("s2"), L(<<I(5)>>)>>)>>)>>),
     T(<<S("s"), L(<<>>), TAGGED>>), T(<<S("s"), D(<<>>, <<>>)>>),
     SwitchT, SwitchU,
     L(<<SWITCH>>), L(<<SWITCH, S("t")>>), L(<<SWITCH, I(3), D(<<>>, <<>>)>>),
     L(<<SWITCH, S("t"), L(<<>>)>>), L(<<SWITCH, S("t"), D(<<>>, <<>>)>>),
     L(<<SWITCH, S("t"), D(<<>>, <<>>), TAGGED>>),
     L(<<SWITCH, S("t"), D(<<I(0), I(1)>>, <<PlainInt, T(<<S("b"), I(65)>>)>>)>>),
     L(<<SWITCH, S("t"), D(<<I(0)>>, <<T(<<>>)>>)>>),
     L(<<SWITCH, S("t"), D(<<I(0)>>, <<T(<<S("b"), I(3), S("FOO")>>)>>)>>),
     L(<<S("FOO"), S("a")>>), L(<<TAGGED>>), L(<<I(3)>>), L(<<PlainInt>>)}

SpecNodes == WidthSpecs \cup HelperSpecs \cup ArrayNodes \cup OtherNodes

ClassifyInit ==
    /\ xpc = "spec"
    /\ xin \in SpecNodes
    /\ xout = Raise("pending")

\* AbsFactory.spec_type(spec)
Classify ==
    /\ xpc = "spec"
    /\ xout' = spec_type(xin)
    /\ xpc' = "classified"
    /\ UNCHANGED <<xin, dvars>>

ClassifierInit == ClassifyInit /\ DOff

ClassifierNext == Classify

SpecClassifier == ClassifierInit /\ [][ClassifierNext]_vars

----------------------------------------------------------------------------
(* Decodes one after the other in one interpreter. The context dicts of    *)
(* the earlier decodes stay in the heap; xin is the size of the heap when  *)
(* the running decode was called and xout the earlier calls with what they *)
(* returned or raised.                                                     *)

\* most decodes run one after the other
MaxDecodes == 3

\* a tag and a switch on it, the switch alone, a nested struct that tags, an
\* array of integers
SeqInputs ==
    {AbsInput(<<TaggedT, SwitchT>>, <<0, 0, 0>>),
     AbsInput(<<TaggedT, SwitchT>>, <<128, 85, 170>>),
     AbsInput(<<SwitchT>>, <<128, 85, 170>>),
     AbsInput(<<StructWithTag, SwitchT>>, <<165, 90, 195>>),
     AbsInput(<<ArraySpec(NB_ELTS, 8, <<>>)>>, <<2, 90, 195>>)}

\* the decode once the hexadecimal string is converted, the heap holding
\* what the earlier decodes left
StartedAgain(in, l_data, heap) ==
    IF ~IsOk(l_data) THEN Failed(<<>>, heap, l_data.err)
    ELSE After(in, <<>>, heap, make(EntrySpec(in), l_data.val, 0, 0, 0, heap))

\* AdvancedBinaryStructure(hex_str, spec) called after an earlier decode
\* returned or raised
Again(in) ==
    /\ pc = "done"
    /\ xpc = "seq"
    /\ Len(xout) + 1 < MaxDecodes
    /\ input' = in
    /\ xout' = Append(xout, [input |-> input, result |-> result])
    /\ xin' = Len(ctxs)
    /\ Goto(StartedAgain(in, hex_str_to_u8(in.hex_str), ctxs))
    /\ UNCHANGED xpc

SeqInit ==
    /\ DInit
    /\ xpc = "seq"
    /\ xin = 0
    /\ xout = <<>>

SeqNext ==
    \/ \E in \in SeqInputs : Begin(in)
    \/ \E in \in SeqInputs : Again(in)
    \/ StructStep
    \/ StructReturn
    \/ ArrayStep
    \/ ArrayReturn

SpecSeq == SeqInit /\ [][SeqNext]_vars

----------------------------------------------------------------------------
(* Harness for the bitwise addresses of HexUtils.py: Init draws an offset  *)
(* or a (byte, bit) couple, and the two conversions are applied one after  *)
(* the other. xout is the value in hand, xin the value drawn.              *)

\* largest offset converted
MaxBitOffset == 100

\* largest byte index converted
MaxByteAddr == 12

AddrInputs ==
    {[offset |-> x] : x \in 0..MaxBitOffset}
        \cup {[addr |-> <<b, o>>] : b \in 0..MaxByteAddr, o \in 0..7}

AddrStart ==
    /\ xpc = "convert"
    /\ xin \in AddrInputs
    /\ xout = xin

\* HexUtils.to_bitwise_addr(offset)
ToBitwiseAddr ==
    /\ xpc \in {"convert", "back"}
    /\ DOMAIN xout = {"offset"}
    /\ xout' = [addr |-> to_bitwise_addr(xout.offset)]
    /\ xpc' = IF xpc = "convert" THEN "back" ELSE "done"
    /\ UNCHANGED <<xin, dvars>>

\* HexUtils.to_offset(byte_addr, byte_offset)
ToOffset ==
    /\ xpc \in {"convert", "back"}
    /\ DOMAIN xout = {"addr"}
    /\ xout' = [offset |-> to_offset(xout.addr[1], xout.addr[2])]
    /\ xpc' = IF xpc = "convert" THEN "back" ELSE "done"
    /\ UNCHANGED <<xin, dvars>>

AddrInit == AddrStart /\ DOff

AddrNext == ToBitwiseAddr \/ ToOffset

SpecAddr == AddrInit /\ [][AddrNext]_vars

----------------------------------------------------------------------------
(* Harness for the shifts of HexUtils.py: Init draws a word or a byte list *)
(* and a shift, one action per function applies it.                        *)

\* how far outside 0..64 the shifts of a word go
MaxShiftExcess == 2

\* longest byte list shifted
MaxShiftLen == 18

\* single bits, all bits, no bit, and the test patterns
Words ==
    {Zero64, Ones64}
        \cup {to_u64(Buffer(p, 8)) : p \in Patterns}
        \cup {[i \in 1..64 |-> IF i = k THEN 1 ELSE 0] : k \in {1, 2, 32, 63, 64}}

ShiftInputs ==
    {[fn |-> "left_shift_64", u64 |-> u, shift |-> s] :
        u \in Words, s \in (0 - MaxShiftExcess)..(64 + MaxShiftExcess)}
      \cup
    {[fn |-> "cross_byte_left_shift", data |-> Buffer(p, n), shift |-> s] :
        p \in Patterns, n \in 0..MaxShiftLen, s \in 0..7}

ShiftStart ==
    /\ xpc = "shift"
    /\ xin \in ShiftInputs
    /\ xout = Raise("pending")

LeftShift64 ==
    /\ xpc = "shift"
    /\ xin.fn = "left_shift_64"
    /\ xout' = left_shift_64(xin.u64, xin.shift)
    /\ xpc' = "done"
    /\ UNCHANGED <<xin, dvars>>

CrossByteLeftShift ==
    /\ xpc = "shift"
    /\ xin.fn = "cross_byte_left_shift"
    /\ xout' = cross_byte_left_shift(xin.data, xin.shift)
    /\ xpc' = "done"
    /\ UNCHANGED <<xin, dvars>>

ShiftInit == ShiftStart /\ DOff

ShiftNext == LeftShift64 \/ CrossByteLeftShift

SpecShift == ShiftInit /\ [][ShiftNext]_vars

----------------------------------------------------------------------------
(* Reference bit extraction, one bit at a time.                            *)

\* bit k (0-based, most significant first) of a byte buffer
BufferBit(data, k) == BitOf(data[(k \div 8) + 1], k % 8)

NaiveByte(data, offset, width, j) ==
    LET bit(k) == IF 8 * j + k < width
                  THEN BufferBit(data, offset + 8 * j + k) * (2 ^ (7 - k))
                  ELSE 0
    IN  bit(0) + bit(1) + bit(2) + bit(3) + bit(4) + bit(5) + bit(6) + bit(7)

NaiveExtract(data, offset, width) ==
    [j \in 1..((width + 7) \div 8) |-> NaiveByte(data, offset, width, j - 1)]

Fits(data, offset, width) == offset + width <= 8 * Len(data)

\* C1: for every buffer, offset in 0..7 and width in 1..64 that fit in the
\* buffer, extract returns the ceil(width/8) bytes of the naive bit-by-bit
\* extraction (the selected bits left-aligned, zero bits up to the byte boundary).
C1_ExtractMatchesNaive ==
    (xpc = "done" /\ xin.fn = "extract" /\ Fits(xin.data, xin.offset, xin.width))
        => /\ IsOk(xout)
           /\ Len(xout.val) = (xin.width + 7) \div 8
           /\ xout.val = NaiveExtract(xin.data, xin.offset, xin.width)

\* an extraction that crosses the boundary between two 64-bit groups at a
\* non-zero bit offset and ends inside a byte
C1_Witness ==
    /\ xpc = "done" /\ xin.fn = "extract"
    /\ xin.offset = 5 /\ xin.width = 61 /\ Len(xin.data) = 9
    /\ IsOk(xout) /\ Len(xout.val) = 8
    /\ xout.val[8] # 0

----------------------------------------------------------------------------
(* The fields decoded so far, from the history kept in kids.               *)

RECURSIVE AllFields(_)

\* a field and every field decoded below it
AllFields(f) == {f} \cup UNION {AllFields(f.kids[i]) : i \in 1..Len(f.kids)}

\* every field that a constructor still running has received
PendingFields ==
    UNION {UNION {AllFields(stack[i].kids[j]) : j \in 1..Len(stack[i].kids)} :
             i \in 1..Len(stack)}

\* every field decoded in the current state
DecodedFields ==
    IF pc = "done" /\ result.err = NoError
    THEN AllFields(result.decoded_data) \cup PendingFields
    ELSE PendingFields

\* the bytes the decoder reads
InputBytes == hex_str_to_u8(input.hex_str).val

\* limb l of the number that the w bits from bit start on stand for, most
\* significant bit first
BigEndianLimb(data, start, w, l) ==
    SeqSum([k \in 1..LimbBits |->
              IF LimbBits * (l - 1) + (k - 1) < w
              THEN BufferBit(data, start + w - 1 - (LimbBits * (l - 1) + (k - 1)))
                       * (2 ^ (k - 1))
              ELSE 0])

BigEndian(data, start, w) == [l \in 1..NLimbs |-> BigEndianLimb(data, start, w, l)]

AllOnesAt(data, start, w) == \A i \in 0..(w - 1) : BufferBit(data, start + i) = 1

\* 2^w - 1 as limbs
AllOnesValue(w) ==
    [l \in 1..NLimbs |-> (2 ^ Min(LimbBits, Max(0, w - LimbBits * (l - 1)))) - 1]

\* C2: every integer field decoded has a width w in 2..64 and its value is
\* the unsigned big-endian number of the w bits of the input from the bit
\* it was decoded at; w bits all set decode to 2^w - 1. The bits of the
\* input are numbered from 0: a cursor that a field of negative width took
\* below 0 designates none of them.
C2_IntegerIsBigEndian ==
    \A f \in DecodedFields :
        f.cls \in IntegerClasses =>
            /\ f.bit_width \in 2..PARAM_MAX_INTEGER_BIT_WIDTH
            /\ f.start >= 0 =>
                  /\ f.value = NumValue("int", BigEndian(InputBytes, f.start, f.bit_width))
                  /\ AllOnesAt(InputBytes, f.start, f.bit_width)
                         => f.value.n = AllOnesValue(f.bit_width)

\* a 64-bit field decoded at bit 7 of a buffer of all-ones bytes
C2_Witness ==
    /\ pc = "done" /\ result.err = NoError
    /\ \E f \in DecodedFields :
          /\ f.cls = "AbsFieldInteger" /\ f.id = "x"
          /\ f.bit_width = 64 /\ f.start = 7
          /\ f.value.n = <<65535, 65535, 65535, 65535>>

\* C3: the bit width of every struct decoded is the sum of the bit widths of
\* the fields it decoded, whatever made them (a switch, a nested struct, a
\* dynamic array); a struct that decoded no field has width 0.
C3_StructWidthIsSumOfChildren ==
    \A f \in DecodedFields :
        f.cls = "AbsFieldStruct" =>
            /\ f.bit_width = SeqSum([i \in 1..Len(f.kids) |-> f.kids[i].bit_width])
            /\ f.kids = <<>> => f.bit_width = 0

\* a nested struct that starts at bit 2, after the tagged field its switch
\* reads, and holds the field of the switch and one more
C3_Witness ==
    /\ pc = "done" /\ result.err = NoError
    /\ \E f \in DecodedFields :
          /\ f.cls = "AbsFieldStruct" /\ f.id = "s" /\ f.start = 2
          /\ Len(f.kids) = 2 /\ f.kids[1].id = "a" /\ f.kids[1].bit_width = 3
          /\ f.bit_width = 7

----------------------------------------------------------------------------
(* The tagged fields decoded so far.                                       *)

RECURSIVE TaggedIn(_)

\* The tagged fields that f brought to the context of the struct that
\* decoded it: f itself, or the ones below a nested struct. The elements of
\* an array are decoded without that context.
TaggedIn(f) ==
    IF f.cls = "AbsFieldStruct"
    THEN UNION {TaggedIn(f.kids[i]) : i \in 1..Len(f.kids)}
    ELSE IF f.cls # "AbsFieldDynArray" /\ f.is_tagged THEN {f}
    ELSE {}

\* the tagged fields that the structs running with context c have decoded
TaggedSoFar(c) ==
    UNION {UNION {TaggedIn(stack[i].kids[j]) : j \in 1..Len(stack[i].kids)} :
             i \in {k \in 1..Len(stack) :
                      stack[k].cls = "AbsFieldStruct" /\ stack[k].ctx = c}}

\* the running struct is about to decode a switch
AtSwitch ==
    /\ pc = "running"
    /\ Top.cls = "AbsFieldStruct"
    /\ Top.next <= Len(Top.spec)
    /\ spec_type(Top.spec[Top.next]) = Ok(SPEC_SWITCH)

\* the identifier the switch at the cursor looks for
SwitchTarget == Top.spec[Top.next].v[2].s

\* the branches of the switch at the cursor
SwitchBranches == Top.spec[Top.next].v[3]

\* what the factory returns for the switch at the cursor
SwitchOutcome == MakeAt(Top, Top.spec[Top.next], Top.ctx, ctxs)

\* C4: at every point of a decode the context of each running struct holds
\* exactly the tagged fields decoded so far under it, so a tagged field is
\* there before the next sibling is decoded. A switch decoded after its
\* target (in the same struct or in a later nested one) gets the branch of
\* the target's value; a switch decoded before its target gets a decoding
\* error.
C4_TaggedBeforeNextSibling ==
    /\ \A i \in 1..Len(stack) :
          stack[i].cls = "AbsFieldStruct" =>
              /\ DOMAIN ctxs[stack[i].ctx] = {g.id : g \in TaggedSoFar(stack[i].ctx)}
              /\ \A id \in DOMAIN ctxs[stack[i].ctx] :
                    ctxs[stack[i].ctx][id] \in TaggedSoFar(stack[i].ctx)
    /\ AtSwitch =>
          /\ (\A g \in TaggedSoFar(Top.ctx) : g.id # SwitchTarget)
                 => SwitchOutcome = Raise("AbsDecodingError")
          /\ \A g \in TaggedSoFar(Top.ctx) :
                 (g.id = SwitchTarget /\ DictHas(SwitchBranches, g.value))
                     => SwitchOutcome =
                            MakeAt(Top, DictGet(SwitchBranches, g.value), Top.ctx, ctxs)

\* a nested struct is about to decode a switch on a field that was tagged
\* in the enclosing struct, and the factory returns the field of a branch
C4_Witness ==
    /\ AtSwitch
    /\ Len(stack) = 2 /\ Top.id = "s" /\ Top.next = 1
    /\ SwitchTarget = "t"
    /\ \E g \in TaggedSoFar(Top.ctx) : g.id = "t" /\ g \in AllFields(stack[1].kids[1])
    /\ IsOk(SwitchOutcome) /\ SwitchOutcome.val.field.id = "a"

\* the switch at the cursor selects nothing: its target is not in the
\* context, or the value of its target is not a key of its branches
SelectsNothing ==
    \/ SwitchTarget \notin DOMAIN ctxs[Top.ctx]
    \/ ~DictHas(SwitchBranches, ctxs[Top.ctx][SwitchTarget].value)

\* C5: a switch decoded without a context, or whose target is not in the
\* context, or whose target's value is not a key of its branches, ends the
\* decode with AbsDecodingError; the struct that met it has received no
\* field and its cursor has not moved, and the context is as it was.
C5_SwitchNeverFallsThrough ==
    [][/\ (AtSwitch /\ SelectsNothing)
           => /\ pc' = "done"
              /\ result' = [err |-> "AbsDecodingError"]
              /\ stack' = stack
              /\ ctxs' = ctxs
       /\ (pc = "idle" /\ input'.entry = "AbsFactory.make"
              /\ spec_type(input'.spec) = Ok(SPEC_SWITCH))
           => /\ pc' = "done"
              /\ result' = [err |-> "AbsDecodingError"]
              /\ stack' = <<>>
              /\ ctxs' = <<>>]_vars

\* the decode ended at a switch whose target is in the context with a value
\* that no branch has, after the target and one more field were decoded
C5_Witness ==
    /\ pc = "done" /\ result = [err |-> "AbsDecodingError"]
    /\ stack # <<>> /\ Top.cls = "AbsFieldStruct"
    /\ Top.next = 3 /\ Len(Top.kids) = 2
    /\ spec_type(Top.spec[Top.next]) = Ok(SPEC_SWITCH)
    /\ SwitchTarget \in DOMAIN ctxs[Top.ctx]
    /\ ~DictHas(SwitchBranches, ctxs[Top.ctx][SwitchTarget].value)

\* the running struct receives in this step a tagged field whose
\* identifier is in its context
ReceivesDuplicateTag ==
    /\ pc = "running"
    /\ Top.cls = "AbsFieldStruct"
    /\ Len(stack') = Len(stack)
    /\ Len(stack'[Len(stack)].kids) = Len(Top.kids) + 1
    /\ stack'[Len(stack)].kids[Len(Top.kids) + 1].is_tagged
    /\ stack'[Len(stack)].kids[Len(Top.kids) + 1].id \in DOMAIN ctxs[Top.ctx]

\* C6: when a struct decodes a tagged field whose identifier is already in
\* its context, whatever put it there, the decode ends with
\* AbsDecodingError and the context keeps the entry it had.
C6_DuplicateTagFails ==
    [][ReceivesDuplicateTag
           => /\ pc' = "done"
              /\ result' = [err |-> "AbsDecodingError"]
              /\ ctxs' = ctxs]_vars

\* the decode ended at a tagged field "u" that follows a switch whose branch
\* had tagged "u": the context still holds the field of the branch
C6_Witness ==
    /\ pc = "done" /\ result = [err |-> "AbsDecodingError"]
    /\ Len(stack) = 1 /\ Top.cls = "AbsFieldStruct"
    /\ Top.next = 3 /\ Len(Top.kids) = 3
    /\ spec_type(Top.spec[2]) = Ok(SPEC_SWITCH)
    /\ Top.kids[2].id = "u" /\ Top.kids[2].is_tagged
    /\ Top.kids[3].id = "u" /\ Top.kids[3].is_tagged
    /\ ctxs[Top.ctx]["u"] = Top.kids[2]
    /\ Top.kids[3] # Top.kids[2]

\* the tagged fields decoded so far by the structs that are running
TaggedByRunning ==
    UNION {TaggedSoFar(stack[i].ctx) :
             i \in {k \in 1..Len(stack) : stack[k].cls = "AbsFieldStruct"}}

\* C7: a switch anywhere below a struct finds a target that the structs
\* around it tagged earlier in the decode: the target is in the context the
\* switch is decoded with. It fails for a switch in the element of a dynamic
\* array, which the array decodes without a context.
C7_TagsReachEveryDescendant ==
    AtSwitch =>
        ((\E g \in TaggedByRunning : g.id = SwitchTarget)
             => SwitchTarget \in DOMAIN ctxs[Top.ctx])

\* the decode ended at a switch on "t" in the first element of an array:
\* the struct around the array had tagged "t" with a value that selects a
\* branch, and the element was decoded with an empty context
C7_Witness ==
    /\ pc = "done" /\ result = [err |-> "AbsDecodingError"]
    /\ Len(stack) = 3
    /\ stack[1].cls = "AbsFieldStruct" /\ stack[2].cls = "AbsFieldDynArray"
    /\ Top.cls = "AbsFieldStruct" /\ Top.next = 1 /\ Top.kids = <<>>
    /\ spec_type(Top.spec[1]) = Ok(SPEC_SWITCH)
    /\ SwitchTarget = "t"
    /\ "t" \in DOMAIN ctxs[stack[1].ctx]
    /\ DictHas(SwitchBranches, ctxs[stack[1].ctx]["t"].value)
    /\ Top.ctx # stack[1].ctx
    /\ ctxs[Top.ctx] = <<>>

\* the loop of a dynamic array with a size header is over and the array
\* returns its field
SizedArrayReturns ==
    /\ pc = "running"
    /\ Top.cls = "AbsFieldDynArray"
    /\ Top.header_type \in {SIZE_EXCL, SIZE_INCL}
    /\ ~MoreElements(Top)
    /\ IsOk(Completed(Top))

\* C8: when a dynamic array with a size header returns, its cursor is on
\* the bound computed from the header. It fails: the loop only tests that
\* the cursor is below the bound.
C8_SizedArrayEndsOnBound == SizedArrayReturns => Top.l_offset = Top.l_end_offset

\* an array with a size header of 8 bits returns after an element of 12
\* bits took the cursor past the bound
C8_Witness ==
    /\ SizedArrayReturns
    /\ Top.header.bit_width = 8
    /\ Len(Top.elts) >= 1
    /\ Top.elts[Len(Top.elts)].bit_width = 12
    /\ Top.l_offset > Top.l_end_offset

\* C9: a dynamic array in SIZE_INCL mode that returns has consumed, header
\* included, the header value times the header width. It fails for the
\* value 0, where the header alone is past the bound.
C9_SizeInclConsumesValueTimesUnit ==
    (SizedArrayReturns /\ Top.header_type = SIZE_INCL)
        => Completed(Top).val.bit_width
               = IntOf(Top.header.value.n) * Top.header.bit_width

\* a SIZE_INCL array with no element specification and header value 0
\* returns with the 8 bits of its header
C9_Witness ==
    /\ SizedArrayReturns /\ Top.header_type = SIZE_INCL
    /\ Top.spec = T(<<S("child"), I(8)>>)
    /\ IntOf(Top.header.value.n) = 0
    /\ Top.elts = <<>>
    /\ Completed(Top).val.bit_width = 8

\* a dynamic array in SIZE_EXCL mode with no element specification
DefaultSizeExcl(frame) ==
    /\ frame.cls = "AbsFieldDynArray"
    /\ frame.header_type = SIZE_EXCL
    /\ Len(frame.spec.v) = 2
    /\ frame.spec.v[2].t = "int"

\* C10: a dynamic array in SIZE_EXCL mode with no element specification and
\* header value v decodes, one after the other behind the header, unsigned
\* integers of the header's width; it goes on while it has fewer than v of
\* them and returns with exactly v, its bit width being (v + 1) times the
\* header's width.
C10_SizeExclDefaultElements ==
    \A i \in 1..Len(stack) :
        DefaultSizeExcl(stack[i]) =>
            /\ Len(stack[i].elts) <= IntOf(stack[i].header.value.n)
            /\ stack[i].l_offset
                   = stack[i].offset
                         + (Len(stack[i].elts) + 1) * stack[i].header.bit_width
            /\ \A k \in 1..Len(stack[i].elts) :
                   /\ stack[i].elts[k].cls = "AbsFieldInteger"
                   /\ stack[i].elts[k].bit_width = stack[i].header.bit_width
                   /\ stack[i].elts[k].start
                          = stack[i].header.start + k * stack[i].header.bit_width
                   /\ stack[i].elts[k].value
                          = NumValue("int", BigEndian(InputBytes, stack[i].elts[k].start,
                                                      stack[i].header.bit_width))
            /\ (pc = "running" /\ i = Len(stack)) =>
                   /\ MoreElements(stack[i])
                          <=> Len(stack[i].elts) < IntOf(stack[i].header.value.n)
                   /\ ~MoreElements(stack[i]) =>
                          /\ IsOk(Completed(stack[i]))
                          /\ Completed(stack[i]).val.bit_width
                                 = (IntOf(stack[i].header.value.n) + 1)
                                       * stack[i].header.bit_width

\* an array with a header of 64 bits and value 1 that starts at bit 3
\* returns with one element of 64 bits, 128 bits wide
C10_Witness ==
    /\ pc = "running"
    /\ DefaultSizeExcl(Top)
    /\ Top.header.bit_width = 64 /\ Top.header.start = 3
    /\ IntOf(Top.header.value.n) = 1
    /\ ~MoreElements(Top)
    /\ Len(Top.elts) = 1 /\ Top.elts[1].start = 67
    /\ Completed(Top).val.bit_width = 128

\* where element k of an array starts when the elements follow each other
\* behind the header
ElementStart(frame, k) ==
    IF k = 1 THEN frame.header.start + frame.header.bit_width
    ELSE frame.elts[k - 1].start + frame.elts[k - 1].bit_width

\* C11: a dynamic array in NB_ELTS mode with header value N decodes exactly
\* N elements, none when N = 0: the first one starts right behind the
\* header and each other one where the one before it ended; the loop goes on
\* while fewer than N are decoded and the array returns with N.
C11_NbEltsDecodesExactlyN ==
    \A i \in 1..Len(stack) :
        (stack[i].cls = "AbsFieldDynArray" /\ stack[i].header_type = NB_ELTS) =>
            /\ Len(stack[i].elts) <= IntOf(stack[i].header.value.n)
            /\ \A k \in 1..Len(stack[i].elts) :
                   stack[i].elts[k].start = ElementStart(stack[i], k)
            /\ stack[i].l_offset
                   = stack[i].offset + stack[i].header.bit_width
                         + SeqSum([k \in 1..Len(stack[i].elts) |->
                                     stack[i].elts[k].bit_width])
            /\ (pc = "running" /\ i = Len(stack)) =>
                   (MoreElements(stack[i])
                        <=> Len(stack[i].elts) < IntOf(stack[i].header.value.n))

\* an array that starts at bit 3 with a header of 8 bits and value 3
\* returns with three elements of 12 bits, the last one at bit 35
C11_Witness ==
    /\ pc = "running"
    /\ Top.cls = "AbsFieldDynArray" /\ Top.header_type = NB_ELTS
    /\ Top.header.start = 3 /\ Top.header.bit_width = 8
    /\ IntOf(Top.header.value.n) = 3
    /\ ~MoreElements(Top)
    /\ Len(Top.elts) = 3
    /\ Top.elts[1].start = 11 /\ Top.elts[1].bit_width = 12
    /\ Top.elts[3].start = 35
    /\ IsOk(Completed(Top))

----------------------------------------------------------------------------
(* Claims about the classifier.                                            *)

\* the node classified is a tuple of n items: an identifier, an integer
\* width, and what follows
IsWidthTuple(n) ==
    /\ xpc = "classified"
    /\ xin.t = "tuple"
    /\ Len(xin.v) = n
    /\ xin.v[1].t = "str"
    /\ xin.v[2].t = "int"

\* C12: (identifier, width) is a placeholder for width 0, a boolean for
\* width 1, an integer for widths 2..64 and a specification error for every
\* other width; (identifier, width, TAGGED) is a boolean for width 1 and an
\* integer for widths 2..64.
C12_WidthDecidesKind ==
    /\ IsWidthTuple(2) =>
           xout = (IF xin.v[2].n = 0 THEN Ok(SPEC_PLACEHOLDER)
                   ELSE IF xin.v[2].n = 1 THEN Ok(SPEC_BOOLEAN)
                   ELSE IF 2 <= xin.v[2].n /\ xin.v[2].n <= 64 THEN Ok(SPEC_INTEGER)
                   ELSE Raise("AbsFieldSpecError"))
    /\ (IsWidthTuple(3) /\ xin.v[3] = TAGGED
            /\ 1 <= xin.v[2].n /\ xin.v[2].n <= 64) =>
           xout = (IF xin.v[2].n = 1 THEN Ok(SPEC_BOOLEAN) ELSE Ok(SPEC_INTEGER))

\* a tagged field of 64 bits is classified as an integer
C12_Witness ==
    /\ IsWidthTuple(3)
    /\ xin.v[3] = TAGGED /\ xin.v[2].n = 64
    /\ xout = Ok(SPEC_INTEGER)

\* whether the validity predicate of a helper kind rejects a width: ASCII
\* wants a multiple of 8, a boolean 1, an integer 2..64, raw data takes
\* every width, and a kind without a predicate of its own rejects all
RejectsWidth(c, w) ==
    CASE c = "AbsFieldAscii" -> w % 8 # 0
      [] c = "AbsFieldBoolean" -> w # 1
      [] c \in {"AbsFieldInteger", "LengthField", "SizeField"} -> w < 2 \/ w > 64
      [] c = "AbsFieldRawData" -> FALSE
      [] OTHER -> TRUE

\* the node classified is (identifier, width, helper kind), TAGGED or not
IsHelperSpec ==
    /\ (IsWidthTuple(3) \/ (IsWidthTuple(4) /\ xin.v[4] = TAGGED))
    /\ xin.v[3].t = "class"
    /\ xin.v[3].c \in HelperClasses

\* C13: a helper specification, with or without TAGGED, whose helper kind
\* rejects the width is a specification error.
C13_RejectedHelperWidthIsSpecError ==
    (IsHelperSpec /\ RejectsWidth(xin.v[3].c, xin.v[2].n))
        => xout = Raise("AbsFieldSpecError")

\* a tagged ASCII helper of 12 bits is a specification error
C13_Witness ==
    /\ IsHelperSpec
    /\ Len(xin.v) = 4
    /\ xin.v[3].c = "AbsFieldAscii" /\ xin.v[2].n = 12
    /\ xout = Raise("AbsFieldSpecError")

\* the node classified is a list that starts with DYN_ARRAY
IsArraySpec ==
    /\ xpc = "classified"
    /\ xin.t = "list"
    /\ Len(xin.v) > 0
    /\ xin.v[1] = DYN_ARRAY

\* the element specification of an array is valid: a valid list of
\* children, or a helper kind that is valid for the unit width
ValidElementSpec(elt, unit) ==
    \/ /\ elt.t = "list"
       /\ spec_type(T(<<S("dummy_id"), elt>>)) = Ok(SPEC_STRUCT)
    \/ /\ elt.t = "class"
       /\ elt.c \in HelperClasses
       /\ ~RejectsWidth(elt.c, unit.n)

\* a dynamic-array specification of the grammar
WellFormedArray(spec) ==
    /\ Len(spec.v) \in {4, 5}
    /\ spec.v[2].t = "str"
    /\ spec.v[3] \in {NB_ELTS, SIZE_EXCL, SIZE_INCL}
    /\ spec.v[4] \in {I(8), I(16), I(32), I(64)}
    /\ Len(spec.v) = 5 => ValidElementSpec(spec.v[5], spec.v[4])

\* a dynamic array is only classified as one when it is of the grammar
C14_OnlyWellFormedArrays ==
    (IsArraySpec /\ xout = Ok(SPEC_DYN_ARRAY)) => WellFormedArray(xin)

\* C14: a dynamic-array specification is a dynamic array when it is of the
\* grammar, and every other one is a specification error. It fails for an
\* element specification that is neither a list nor a class, and for an
\* empty tuple among the element's children.
C14_ArrayOrSpecError ==
    IsArraySpec =>
        xout = (IF WellFormedArray(xin) THEN Ok(SPEC_DYN_ARRAY)
                ELSE Raise("AbsFieldSpecError"))

\* an array whose element specification is a tuple ends in TypeError
C14_Witness ==
    /\ IsArraySpec
    /\ xin = L(<<DYN_ARRAY, S("arr"), NB_ELTS, I(8), T(<<S("e"), I(8)>>)>>)
    /\ xout = Raise("TypeError")

\* the seven kinds of field
SpecKinds ==
    {SPEC_PLACEHOLDER, SPEC_BOOLEAN, SPEC_INTEGER, SPEC_HELPER_CLASS,
     SPEC_STRUCT, SPEC_SWITCH, SPEC_DYN_ARRAY}

\* C15: the classifier returns one of the seven kinds or raises a
\* specification error, whatever the node. It fails for a third item that
\* is neither TAGGED nor a class, and for an empty tuple.
C15_KindOrSpecError ==
    xpc = "classified" =>
        \/ xout \in {Ok(k) : k \in SpecKinds}
        \/ xout = Raise("AbsFieldSpecError")

\* an unknown third item ends in TypeError
C15_Witness ==
    /\ xpc = "classified"
    /\ xin = T(<<S("a"), I(3), S("FOO")>>)
    /\ xout = Raise("TypeError")

\* an empty tuple ends in IndexError
C15_EmptyTuple ==
    /\ xpc = "classified"
    /\ xin = T(<<>>)
    /\ xout = Raise("IndexError")

----------------------------------------------------------------------------
(* Claims about the decoder, continued.                                    *)

\* a top-level decode was started on a specification that the classifier
\* does not accept
InvalidSpecStarted ==
    /\ pc # "idle"
    /\ input.entry = "AdvancedBinaryStructure"
    /\ ~IsOk(spec_type(EntrySpec(input)))

\* a specification that is not accepted ends the decode at once with an
\* error, no field decoded and no context made
C16_NothingDecoded ==
    InvalidSpecStarted =>
        /\ pc = "done"
        /\ result.err # NoError
        /\ stack = <<>>
        /\ ctxs = <<>>

\* C16: a top-level decode of a specification with an invalid node anywhere
\* fails with a specification error whatever the input is, with no field
\* decoded and no tag registered. It fails for a hexadecimal string of odd
\* length, which is converted before the specification is classified, and
\* for the nodes that the classifier rejects with another error.
C16_InvalidSpecIsSpecError ==
    InvalidSpecStarted =>
        /\ pc = "done"
        /\ result = [err |-> "AbsFieldSpecError"]
        /\ stack = <<>>
        /\ ctxs = <<>>

\* a field of 65 bits behind a valid field, on a string of three digits:
\* the classifier would raise AbsFieldSpecError, the decode raises
\* HexUtilsInputSizeError
C16_Witness ==
    /\ InvalidSpecStarted
    /\ spec_type(EntrySpec(input)) = Raise("AbsFieldSpecError")
    /\ input.spec = L(<<PlainInt, T(<<S("b"), I(65)>>)>>)
    /\ Len(input.hex_str) = 3
    /\ pc = "done"
    /\ result = [err |-> "HexUtilsInputSizeError"]

\* the branch that the switch at the cursor selects
SelectedBranch == DictGet(SwitchBranches, ctxs[Top.ctx][SwitchTarget].value)

\* the identifier that a specification gives its field
OwnId(spec) ==
    IF spec.t = "str" THEN spec.s
    ELSE IF spec.t = "tuple" THEN spec.v[1].s
    ELSE spec.v[2].s

\* the running struct after the step
TopAfter == stack'[Len(stack)]

\* the field that the running struct received in the step
Received == TopAfter.kids[Len(Top.kids) + 1]

AtCursor ==
    /\ pc = "running"
    /\ \/ Top.cls = "AbsFieldStruct" /\ Top.next <= Len(Top.spec)
       \/ Top.cls = "AbsFieldDynArray" /\ MoreElements(Top)
                                       /\ Len(Top.elts) < MaxElts

\* the specification at the cursor
CursorSpec == IF Top.cls = "AbsFieldStruct" THEN Top.spec[Top.next] ELSE Top.spec

\* the specification at the cursor is a boolean, an integer, a helper
\* field or an array
ReadsBitsAtCursor ==
    /\ AtCursor
    /\ IsOk(spec_type(CursorSpec))
    /\ spec_type(CursorSpec).val
           \in {SPEC_BOOLEAN, SPEC_INTEGER, SPEC_HELPER_CLASS, SPEC_DYN_ARRAY}

\* the bits that the field at the cursor reads first: its width, or the
\* width of the header for an array
CursorWidth ==
    IF CursorSpec.t = "tuple" THEN CursorSpec.v[2].n ELSE CursorSpec.v[4].n

\* the field at the cursor needs bits behind the end of the data
RunsPastEnd ==
    /\ ReadsBitsAtCursor
    /\ CursorWidth > 0
    /\ Top.l_offset + CursorWidth > 8 * Len(Top.data)

\* C18: a field that runs past the end of the data, whatever its kind, ends
\* the decode with the input-size error. It fails for booleans, integers
\* and the headers of arrays, which index the data directly.
C18_PastEndIsInputSizeError ==
    [][RunsPastEnd
           => /\ pc' = "done"
              /\ result' = [err |-> "HexUtilsInputSizeError"]]_vars

\* a field that runs past the end of the data ends the decode with
\* HexUtilsInputSizeError or with IndexError, and nothing else
C18_PastEndFails ==
    [][RunsPastEnd
           => /\ pc' = "done"
              /\ result'.err \in {"HexUtilsInputSizeError", "IndexError"}
              /\ result'.err = "HexUtilsInputSizeError"
                     <=> /\ spec_type(CursorSpec) = Ok(SPEC_HELPER_CLASS)
                         /\ CursorSpec.v[3].c \in {"AbsFieldAscii", "AbsFieldRawData"}]_vars

\* the decode ended with IndexError at an integer of 9 bits that starts at
\* bit 7 of a single byte
C18_Witness ==
    /\ pc = "done" /\ result = [err |-> "IndexError"]
    /\ Len(stack) = 1 /\ Top.cls = "AbsFieldStruct"
    /\ Top.next = 2
    /\ Top.spec[2] = T(<<S("x"), I(9)>>)
    /\ Top.l_offset = 7
    /\ Len(Top.data) = 1

\* extract raises HexUtilsInputSizeError exactly when offset + width is
\* more than the bits of the buffer
C18_ExtractSizeError ==
    xpc = "done" =>
        (xout = Raise("HexUtilsInputSizeError")
             <=> xin.offset + xin.width > 8 * Len(xin.data))

\* a decode through AdvancedBinaryStructure(hex_str, spec) that succeeded
TopLevelSuccess ==
    /\ pc = "done"
    /\ result.err = NoError
    /\ input.entry = "AdvancedBinaryStructure"

\* the bytes of the input of which a decode of d bits consumed some bit
TouchedBytes(d) == (d + 7) \div 8

\* the hex digits of the input bytes of which no bit was consumed
WholeBytesAfter(hex_str, d) ==
    SubSeq(hex_str, 2 * Min(TouchedBytes(d), Len(hex_str) \div 2) + 1, Len(hex_str))

\* C19: after a successful top-level decode that consumed d bits, the
\* remaining data is made of the input bytes that lie wholly after the last
\* consumed bit; a byte of which some bits were consumed is left out
C19_RemainingIsWholeBytesAfterCursor ==
    TopLevelSuccess =>
        result.remaining_data
            = WholeBytesAfter(input.hex_str, result.decoded_data.bit_width)

\* the remaining data starts at the byte that holds the last consumed bit,
\* whether or not that byte was consumed to its end
C19_RemainingStartsAtCursorByte ==
    TopLevelSuccess =>
        result.remaining_data
            = SubSeq(input.hex_str,
                     2 * (result.decoded_data.bit_width \div 8) + 1,
                     Len(input.hex_str))

\* a decode of 12 bits of 3 bytes reports the last 2 bytes as remaining, the
\* first of them half consumed
C19_Witness ==
    /\ TopLevelSuccess
    /\ result.decoded_data.bit_width = 12
    /\ Len(input.hex_str) = 6
    /\ result.remaining_data = SubSeq(input.hex_str, 3, 6)

----------------------------------------------------------------------------
(* Claims about decodes run one after the other.                           *)

\* the decodes that returned or raised so far, in order
Calls ==
    IF pc = "done" THEN Append(xout, [input |-> input, result |-> result])
    ELSE xout

\* the context of every running constructor was created after the running
\* decode was called
OwnContexts ==
    \A i \in 1..Len(stack) :
        /\ stack[i].ctx > xin
        /\ stack[i].ctx <= Len(ctxs)

\* the same call made twice gave the same result or the same error
SameCallSameResult ==
    \A i, j \in 1..Len(Calls) :
        Calls[i].input = Calls[j].input => Calls[i].result = Calls[j].result

\* C20: decodes run one after the other share no state: the constructors of
\* a decode work on contexts the decode created itself, so no tag of an
\* earlier decode reaches a switch, and a (specification, data) pair decoded
\* again, whatever was decoded in between, gives the same result or error
C20_DecodesShareNoState ==
    /\ pc = "running" => OwnContexts
    /\ SameCallSameResult

\* a step of a decode leaves the contexts of the earlier decodes as they were
C20_EarlierContextsUntouched ==
    [][xout' = xout => \A i \in 1..xin : ctxs'[i] = ctxs[i]]_vars

\* a decode registered the tag t, then the switch on t decoded alone raised
\* AbsDecodingError, then the first decode run again gave its first result
C20_Witness ==
    /\ pc = "done"
    /\ Len(xout) = 2
    /\ xout[1].input = AbsInput(<<TaggedT, SwitchT>>, <<128, 85, 170>>)
    /\ xout[1].result.err = NoError
    /\ \E i \in 1..Len(ctxs) : "t" \in DOMAIN ctxs[i]
    /\ xout[2].input = AbsInput(<<SwitchT>>, <<128, 85, 170>>)
    /\ xout[2].result = [err |-> "AbsDecodingError"]
    /\ input = xout[1].input
    /\ result = xout[1].result

----------------------------------------------------------------------------
(* Claims about the bitwise addresses.                                     *)

----------------------------------------------------------------------------
(* Claims about the shifts.                                                *)

\* the 128 bits of discarded * 2^64 + retained, most significant first
Wide(pair) == pair[1] \o pair[2]

\* the 128 bits of u * 2^s for a 64-bit word u
WideShifted(u, s) ==
    [p \in 1..128 |-> IF p - 64 + s \in 1..64 THEN u[p - 64 + s] ELSE 0]

\* C22: for a 64-bit value u and a shift s in 0..64, left_shift_64(u, s)
\* returns (discarded, retained) where discarded is the top s bits of u and
\* retained is (u * 2^s) mod 2^64, so discarded * 2^64 + retained = u * 2^s;
\* for s outside 0..64 it raises HexUtilsParamError
C22_LeftShift64 ==
    xpc = "done" /\ xin.fn = "left_shift_64" =>
        IF xin.shift \in 0..64
        THEN /\ IsOk(xout)
             /\ \A i \in 1..64 :
                  /\ xout.val[1][i]
                        = IF i > 64 - xin.shift
                          THEN xin.u64[i - (64 - xin.shift)] ELSE 0
                  /\ xout.val[2][i]
                        = IF i + xin.shift <= 64
                          THEN xin.u64[i + xin.shift] ELSE 0
             /\ Wide(xout.val) = WideShifted(xin.u64, xin.shift)
        ELSE xout = Raise("HexUtilsParamError")

\* all 64 bits set shifted by 64: everything is discarded; and a shift of 65
\* refused
C22_Witness ==
    /\ xpc = "done" /\ xin.fn = "left_shift_64"
    /\ \/ xin.u64 = Ones64 /\ xin.shift = 64 /\ xout = Ok(<<Ones64, Zero64>>)
       \/ xin.shift = 65 /\ xout = Raise("HexUtilsParamError")

----------------------------------------------------------------------------
(* Claims about the decoder: placeholders, raw data, cursors.              *)

\* the running struct is about to decode a placeholder
AtPlaceholder ==
    /\ AtCursor
    /\ Top.cls = "AbsFieldStruct"
    /\ spec_type(CursorSpec) = Ok(SPEC_PLACEHOLDER)

\* the absolute bit position of the cursor of a frame
CursorOf(frame) == to_offset(frame.base, frame.l_offset)

\* the field or the constructor that the step made starts at bit position p
StepStartsAt(p) ==
    \/ /\ pc' = "running" /\ Len(stack') = Len(stack)
       /\ Len(TopAfter.kids) = Len(Top.kids) + 1
       /\ Received.start = p
    \/ /\ pc' = "running" /\ Len(stack') = Len(stack) + 1
       /\ to_offset(stack'[Len(stack')].base, stack'[Len(stack')].offset) = p

\* the last field that the running struct received is a placeholder
AfterPlaceholder ==
    /\ AtCursor
    /\ Top.cls = "AbsFieldStruct"
    /\ Top.kids # <<>>
    /\ Top.kids[Len(Top.kids)].cls = "AbsFieldPlaceholder"

\* C23: decoding a placeholder consumes no bits and changes nothing else:
\* the struct receives a field of bit width 0 with no value and no raw data,
\* the context stays as it was, the cursor does not move, and the next
\* sibling is decoded at the bit position the placeholder was decoded at
C23_PlaceholderConsumesNothing ==
    /\ [][AtPlaceholder
             => /\ pc' = "running"
                /\ Len(stack') = Len(stack)
                /\ Below' = Below
                /\ ctxs' = ctxs
                /\ Len(TopAfter.kids) = Len(Top.kids) + 1
                /\ Received.cls = "AbsFieldPlaceholder"
                /\ Received.id = OwnId(CursorSpec)
                /\ Received.bit_width = 0
                /\ Received.value = NoneValue
                /\ Received.raw_data = <<>>
                /\ Received.is_tagged = FALSE
                /\ Received.start = CursorOf(Top)
                /\ TopAfter.l_offset = Top.l_offset
                /\ CursorOf(TopAfter) = CursorOf(Top)
                /\ TopAfter.next = Top.next + 1]_vars
    /\ [][(AfterPlaceholder /\ pc' = "running")
             => StepStartsAt(Top.kids[Len(Top.kids)].start)]_vars

\* a struct decoded 3 bits, then a placeholder, then an integer of 9 bits
\* that starts at bit 3 as the placeholder did
C23_Witness ==
    /\ pc = "running"
    /\ Len(stack) = 1
    /\ Len(Top.kids) = 3
    /\ Top.kids[2].cls = "AbsFieldPlaceholder"
    /\ Top.kids[2].start = 3
    /\ Top.kids[3].cls = "AbsFieldInteger"
    /\ Top.kids[3].start = 3
    /\ Top.kids[3].bit_width = 9
    /\ Top.l_offset = 12

\* bit k (from 1) of the raw data of a field
RawBit(f, k) == BitOf(f.raw_data[((k - 1) \div 8) + 1], (k - 1) % 8)

\* C24: every decoded field of bit width w > 0, primitive, helper, struct or
\* array, exposes as raw data the bits it consumed: ceil(w / 8) bytes that
\* hold the w bits from the field's start on, left-aligned, the bits of the
\* last byte behind them 0, while the bit width reported stays w (for a
\* field that starts on a bit of the input, numbered from 0)
C24_RawDataIsBitsConsumed ==
    \A f \in DecodedFields :
        f.bit_width > 0 /\ f.start >= 0 =>
            /\ Len(f.raw_data) = (f.bit_width + 7) \div 8
            /\ f.start + f.bit_width <= 8 * Len(InputBytes)
            /\ \A k \in 1..(8 * Len(f.raw_data)) :
                  RawBit(f, k)
                      = IF k <= f.bit_width
                        THEN BitsOf(InputBytes)[f.start + k] ELSE 0

\* an integer of 9 bits decoded at bit 3 of A5 5A: raw data 2A 80, of which
\* the last 7 bits are padding
C24_Witness ==
    \E f \in DecodedFields :
        /\ f.cls = "AbsFieldInteger"
        /\ f.bit_width = 9
        /\ f.start = 3
        /\ InputBytes = <<165, 90, 195>>
        /\ f.raw_data = <<42, 128>>

\* what the constructor of a frame was called with: the input without its
\* first base bytes, and an offset below 8
CalledOnSlice(frame) ==
    /\ frame.offset \in 0..7
    /\ frame.base >= 0
    /\ frame.data
           = SubSeq(InputBytes, Min(frame.base, Len(InputBytes)) + 1, Len(InputBytes))

\* the constructor i of the stack was called at the cursor of the one below
CalledAtCursorBelow(i) ==
    IF i = 1 THEN to_offset(stack[i].base, stack[i].offset) = 0
    ELSE to_offset(stack[i].base, stack[i].offset) = CursorOf(stack[i - 1])

----------------------------------------------------------------------------
(* Claims about termination.                                               *)

\* the frame is in the loop "while l_offset < l_end_offset" of an array
\* with a size header, between two iterations
InSizedLoop(frame) ==
    /\ frame.cls = "AbsFieldDynArray"
    /\ frame.header_type # NB_ELTS
    /\ frame.elts # <<>>
    /\ MoreElements(frame)

\* the cursor of the frame before its last element was decoded
CursorBeforeLast(frame) == frame.l_offset - frame.elts[Len(frame.elts)].bit_width

\* C27: a top-level decode of a specification that the classifier accepts
\* ends on every input, also in an array with a size header whose elements
\* take no bits. The decode is sequential and reads nothing but its
\* arguments, so it ends exactly if no loop comes back to the state it was
\* in: an iteration of "while l_offset < l_end_offset" after which the loop
\* goes on must have moved the cursor forward. It fails for elements that
\* take no bits: the cursor, the end offset, the data and the element
\* specification are the same before every iteration, for ever.
C27_DecodeTerminates ==
    pc = "running" =>
        \A i \in 1..Len(stack) :
            InSizedLoop(stack[i]) => stack[i].l_offset > CursorBeforeLast(stack[i])

\* the loops over a struct's children and over the elements that a length
\* header counts are bounded by their position, and an iteration of a sized
\* loop never moves the cursor back
C27_OtherLoopsBounded ==
    pc = "running" =>
        \A i \in 1..Len(stack) :
            /\ stack[i].cls = "AbsFieldStruct"
                   => stack[i].next \in 1..(Len(stack[i].spec) + 1)
                      /\ Len(stack[i].kids) = stack[i].next - 1
            /\ stack[i].cls = "AbsFieldDynArray" /\ stack[i].header_type = NB_ELTS
                   => Len(stack[i].elts) <= IntOf(stack[i].header.value.n)
            /\ InSizedLoop(stack[i])
                   => stack[i].l_offset >= CursorBeforeLast(stack[i])

\* a SIZE_INCL array with header value 2 and empty structs as elements has
\* decoded MaxElts elements and its cursor is still at bit 8, before the
\* end offset 16; the classifier accepts the specification
C27_Witness ==
    /\ pc = "running"
    /\ IsOk(spec_type(EntrySpec(input)))
    /\ Len(stack) = 2
    /\ InSizedLoop(Top)
    /\ Top.header_type = SIZE_INCL
    /\ Top.spec = T(<<S("child"), L(<<>>)>>)
    /\ IntOf(Top.header.value.n) = 2
    /\ Len(Top.elts) = MaxElts
    /\ Top.elts[MaxElts].bit_width = 0
    /\ Top.l_offset = 8
    /\ Top.l_end_offset = 16

----------------------------------------------------------------------------
(* Claims about the mapping of a struct.                                   *)

\* the structs decoded to their end
DecodedStructs == {f \in DecodedFields : f.cls = "AbsFieldStruct"}

\* the last field with the identifier id among the fields a struct decoded
LastWithId(f, id) ==
    f.kids[CHOOSE i \in 1..Len(f.kids) :
               /\ f.kids[i].id = id
               /\ \A j \in (i + 1)..Len(f.kids) : f.kids[j].id # id]

\* C28: the mapping of a struct decoded with success holds one entry per
\* child specification, in the order of the specification, so the bit
\* widths of its entries add up to the bit width of the struct; no decoded
\* child is lost or overwritten, also when two children, or a child and the
\* branch of a switch, have the same identifier. It fails for such
\* children: the mapping keeps the last one only.
C28_MappingHoldsEveryChild ==
    \A f \in DecodedStructs :
        /\ Len(f.items) = Len(f.kids)
        /\ \A i \in 1..Len(f.items) :
              /\ f.items[i].key = f.kids[i].id
              /\ f.items[i].val = f.kids[i]
        /\ SeqSum([i \in 1..Len(f.items) |-> f.items[i].val.bit_width]) = f.bit_width

\* the mapping of a struct holds one entry per identifier, the last field
\* decoded with it, at the place of the first; with identifiers that are
\* all different it holds every child in order
C28_MappingKeepsLastOfEachId ==
    \A f \in DecodedStructs :
        /\ {f.items[i].key : i \in 1..Len(f.items)}
               = {f.kids[i].id : i \in 1..Len(f.kids)}
        /\ \A i, j \in 1..Len(f.items) : f.items[i].key = f.items[j].key => i = j
        /\ \A i \in 1..Len(f.items) : f.items[i].val = LastWithId(f, f.items[i].key)
        /\ (\A i, j \in 1..Len(f.kids) : f.kids[i].id = f.kids[j].id => i = j)
               => /\ Len(f.items) = Len(f.kids)
                  /\ \A i \in 1..Len(f.items) : f.items[i].val = f.kids[i]

\* the root struct decoded two fields "a" of 5 bits each: its bit width is
\* 10 and its mapping holds one entry, the second field
C28_Witness ==
    /\ pc = "done" /\ result.err = NoError
    /\ input.spec = L(<<PlainInt, PlainInt>>)
    /\ result.decoded_data.bit_width = 10
    /\ Len(result.decoded_data.kids) = 2
    /\ Len(result.decoded_data.items) = 1
    /\ result.decoded_data.items[1].val = result.decoded_data.kids[2]
    /\ result.decoded_data.items[1].val.start = 5

----------------------------------------------------------------------------
(* Claims about the classifier, continued.                                 *)

\* the node classified is (identifier, width, helper kind, TAGGED)
IsTaggedHelperSpec ==
    /\ IsWidthTuple(4)
    /\ xin.v[4] = TAGGED
    /\ xin.v[3].t = "class"
    /\ xin.v[3].c \in HelperClasses

\* the same specification without TAGGED
Untagged(spec) == T(<<spec.v[1], spec.v[2], spec.v[3]>>)

\* the node classified is a field with a width, accepted as a boolean, an
\* integer or a helper field
AcceptedField ==
    /\ xpc = "classified"
    /\ xin.t = "tuple"
    /\ Len(xin.v) >= 2
    /\ xin.v[2].t = "int"
    /\ xout \in {Ok(SPEC_BOOLEAN), Ok(SPEC_INTEGER), Ok(SPEC_HELPER_CLASS)}

\* C29: TAGGED does not change the widths a helper specification accepts:
\* for every helper kind and every width, 0 and the negative ones included,
\* (identifier, width, kind, TAGGED) is a helper field exactly when
\* (identifier, width, kind) is, and a specification error otherwise; and
\* no field accepted has a width below 1, a placeholder apart. It fails for
\* widths below 1 that the kind's own test lets through (raw data, ASCII):
\* the tagged form is accepted, the untagged one is not.
C29_TaggedHelperLikeUntagged ==
    /\ IsTaggedHelperSpec =>
          IF spec_type(Untagged(xin)) = Ok(SPEC_HELPER_CLASS)
          THEN xout = Ok(SPEC_HELPER_CLASS)
          ELSE xout = Raise("AbsFieldSpecError")
    /\ AcceptedField => xin.v[2].n >= 1

\* with a width of 1 or more the tagged and the untagged form of a helper
\* specification are classified alike; below 1 the untagged form is a
\* specification error and the tagged form is what the kind's test says
C29_TaggedHelperByWidth ==
    IsTaggedHelperSpec =>
        /\ spec_type(Untagged(xin))
               = (IF xin.v[2].n >= 1 /\ ~RejectsWidth(xin.v[3].c, xin.v[2].n)
                  THEN Ok(SPEC_HELPER_CLASS) ELSE Raise("AbsFieldSpecError"))
        /\ xout = (IF ~RejectsWidth(xin.v[3].c, xin.v[2].n)
                   THEN Ok(SPEC_HELPER_CLASS) ELSE Raise("AbsFieldSpecError"))

\* tagged raw data of width 0 is accepted as a helper field; without TAGGED
\* it is a specification error
C29_Witness ==
    /\ IsTaggedHelperSpec
    /\ xin.v[3].c = "AbsFieldRawData"
    /\ xin.v[2].n = 0
    /\ xout = Ok(SPEC_HELPER_CLASS)
    /\ spec_type(Untagged(xin)) = Raise("AbsFieldSpecError")

----------------------------------------------------------------------------
(* Claims about the statistics of a top-level decode.                      *)

\* the bits the statistics report as decoded and as remaining
ReportedDecoded ==
    to_offset(result.statistics.decoded[1], result.statistics.decoded[2])

ReportedRemaining ==
    to_offset(result.statistics.remaining[1], result.statistics.remaining[2])

\* C30: whenever a top-level decode succeeds, the bits it reports as decoded
\* are between 0 and 8 * len(input bytes), the bits it reports as remaining
\* are not negative, and decoded + remaining is the number of input bits. It
\* fails once a tagged helper field of a negative width is decoded: the
\* struct adds the negative width to its own.
C30_DecodedBitsWithinInput ==
    TopLevelSuccess =>
        /\ 0 <= ReportedDecoded
        /\ ReportedDecoded <= 8 * Len(InputBytes)
        /\ ReportedRemaining >= 0
        /\ ReportedDecoded + ReportedRemaining = 8 * Len(InputBytes)

\* decoded and remaining always add up to the input, the decoded bits are
\* those of the outermost field and never more than the input holds; they
\* are not negative as long as no field decoded has a negative width
C30_DecodedBitsWithoutNegativeWidth ==
    TopLevelSuccess =>
        /\ ReportedDecoded = result.decoded_data.bit_width
        /\ ReportedDecoded + ReportedRemaining = 8 * Len(InputBytes)
        /\ ReportedDecoded <= 8 * Len(InputBytes)
        /\ (\A f \in DecodedFields : f.bit_width >= 0) => 0 <= ReportedDecoded

\* 3 bytes, one tagged raw data field of -15 bits: the decode succeeds and
\* reports -15 bits decoded, 39 remaining
C30_Witness ==
    /\ TopLevelSuccess
    /\ Len(InputBytes) = 3
    /\ Len(result.decoded_data.kids) = 1
    /\ result.decoded_data.kids[1].cls = "AbsFieldRawData"
    /\ result.decoded_data.kids[1].bit_width = 0 - 15
    /\ ReportedDecoded = 0 - 15
    /\ ReportedRemaining = 39

====
